---- MODULE Spec2Model ----
(***************************************************************************)
(* A model of the .ker configuration format tools: the reference           *)
(* implementation (ker_parser/main.py: lexer, parser, JSON bridge,         *)
(* pretty-printer) and the public package ker (ker/lexer.py,               *)
(* ker/parser.py, ker/json_support.py, ker/wrapper.py).                    *)
(*                                                                         *)
(* A text is a sequence of characters, each character a one-element        *)
(* string.  Python values are tagged records [t, v].                       *)
(***************************************************************************)
EXTENDS Integers, Sequences, FiniteSets, TLC

VARIABLES
    text,       \* the .ker source text handed to both implementations
    pc,         \* the driver's position in the run
    toks,       \* reference: the token list Parser.__init__ materialises
    root,       \* reference: Parser(text).parse()
    out1,       \* reference: dumps_to_ker(root)
    root2,      \* reference: Parser(out1).parse()
    out2,       \* reference: dumps_to_ker(root2)
    root3,      \* reference: Parser(out2).parse()
    ktoks,      \* ker: the tokens Lexer.get_next_token yields for text
    kdata,      \* ker: loads(text)
    kout,       \* ker: dumps(kdata)
    kdata2,     \* ker: loads(kout)
    py,         \* JSON bridge: the plain value to convert
    jnode,      \* JSON bridge: reference from_json_string / py_to_node of py
    jback,      \* JSON bridge: reference node_to_json(jnode)
    kjnode,     \* JSON bridge: ker py_to_node(py)
    kjback,     \* JSON bridge: ker node_to_json(kjnode)
    jtext,      \* reference: to_json(root, indent), the JSON text
    args,       \* command line: the parsed arguments of ker.tool.main
    files,      \* command line: the files, by path (None: no such file)
    stdin,      \* command line: what is left to read on standard input
    stdout,     \* command line: what was written on standard output
    stderr,     \* command line: the messages printed on standard error
    exit        \* command line: the exit status, None while main runs

vars == <<text, pc, toks, root, out1, root2, out2, root3,
          ktoks, kdata, kout, kdata2, py, jnode, jback, kjnode, kjback, jtext,
          args, files, stdin, stdout, stderr, exit>>

(***************************************************************************)
(* Characters.                                                             *)
(***************************************************************************)
NoChar == "<None>"      \* current_char is None: the input is exhausted
NL == "\n"
TAB == "\t"
CR == "\r"
QUOTE == "\""
BSL == "\\"
SP == " "

AsciiLower == {"a","b","c","d","e","f","g","h","i","j","k","l","m",
               "n","o","p","q","r","s","t","u","v","w","x","y","z"}
AsciiUpper == {"A","B","C","D","E","F","G","H","I","J","K","L","M",
               "N","O","P","Q","R","S","T","U","V","W","X","Y","Z"}
AsciiLetters == AsciiLower \cup AsciiUpper
AsciiDigits == {"0","1","2","3","4","5","6","7","8","9"}
\* one letter and one digit outside ASCII: str.isalpha / str.isdigit accept them
UniLetters == {"<e-acute>"}
UniDigits == {"<arabic-3>"}
IsAlpha == AsciiLetters \cup UniLetters          \* str.isalpha()
IsDigit == AsciiDigits \cup UniDigits            \* str.isdigit()
IsAlnum == IsAlpha \cup IsDigit                  \* str.isalnum()
WordChars == AsciiLetters \cup AsciiDigits \cup {"_"}   \* [A-Za-z0-9_]
HexChars == AsciiDigits \cup {"a","b","c","d","e","f","A","B","C","D","E","F"}
Blank == {SP, TAB, CR}                           \* " \t\r"
StripChars == {SP, TAB, CR, NL}                  \* what str.strip() removes here

(***************************************************************************)
(* Sequence helpers.                                                       *)
(***************************************************************************)
RECURSIVE Concat(_)
Concat(ss) == IF ss = <<>> THEN <<>> ELSE Head(ss) \o Concat(Tail(ss))

RECURSIVE Join(_, _)
Join(ss, sep) ==
    IF ss = <<>> THEN <<>>
    ELSE IF Len(ss) = 1 THEN ss[1]
    ELSE ss[1] \o sep \o Join(Tail(ss), sep)

RECURSIVE LStrip(_)
LStrip(s) == IF s # <<>> /\ Head(s) \in StripChars THEN LStrip(Tail(s)) ELSE s

RECURSIVE RStrip(_)
RStrip(s) ==
    IF s # <<>> /\ s[Len(s)] \in StripChars THEN RStrip(SubSeq(s, 1, Len(s) - 1)) ELSE s

Strip(s) == LStrip(RStrip(s))

(***************************************************************************)
(* Reference lexer (ker_parser/main.py).  A lexer state is [pos, line,     *)
(* col]; pos is 1-based here.                                              *)
(***************************************************************************)
LexStart == [pos |-> 1, line |-> 1, col |-> 1]

Cur(s, st) == IF st.pos <= Len(s) THEN s[st.pos] ELSE NoChar

Adv(s, st) ==
    IF Cur(s, st) = NL
    THEN [pos |-> st.pos + 1, line |-> st.line + 1, col |-> 1]
    ELSE [pos |-> st.pos + 1, line |-> st.line, col |-> st.col + 1]

Peek(s, st) == IF st.pos + 1 <= Len(s) THEN s[st.pos + 1] ELSE NoChar

Tok(type, value, line, col) ==
    [type |-> type, value |-> value, line |-> line, col |-> col]

LexErr(msg, line, col) ==
    [ok |-> FALSE, etype |-> "LexerError", msg |-> msg, line |-> line, col |-> col]

LexOk(st, tok) == [ok |-> TRUE, st |-> st, tok |-> tok]

\* while current_char in S: acc += current_char; advance()
RECURSIVE ScanWhile(_, _, _, _)
ScanWhile(s, st, acc, S) ==
    IF Cur(s, st) \in S
    THEN ScanWhile(s, Adv(s, st), Append(acc, Cur(s, st)), S)
    ELSE [st |-> st, acc |-> acc]

\* while current_char is not None and current_char != '\n': ...
RECURSIVE ScanLine(_, _, _)
ScanLine(s, st, acc) ==
    IF Cur(s, st) # NoChar /\ Cur(s, st) # NL
    THEN ScanLine(s, Adv(s, st), Append(acc, Cur(s, st)))
    ELSE [st |-> st, acc |-> acc]

\* re.match(r'-?0[0-9]', num_str)
LeadingZero(num) ==
    LET d == IF num # <<>> /\ num[1] = "-" THEN Tail(num) ELSE num
    IN  Len(d) >= 2 /\ d[1] = "0" /\ d[2] \in AsciiDigits

lex_number(s, st0) ==
    LET Finish(c) ==
            IF LeadingZero(c.acc)
            THEN LexErr("Invalid number format", st0.line, st0.col)
            ELSE LexOk(c.st, Tok("NUMBER", c.acc, st0.line, st0.col))
        \* if self.current_char in 'eE': the letter, a sign, the digits
        ExpDigits(st4, n4) ==
            IF Cur(s, st4) \notin IsDigit
            THEN LexErr("Bad number", st4.line, st4.col)
            ELSE Finish(ScanWhile(s, st4, n4, IsDigit))
        ExpSign(st3, n3, sg) ==
            ExpDigits(IF sg THEN Adv(s, st3) ELSE st3,
                      IF sg THEN Append(n3, Cur(s, st3)) ELSE n3)
        Exp(b) ==
            IF Cur(s, b.st) \in {"e", "E"}
            THEN ExpSign(Adv(s, b.st), Append(b.acc, Cur(s, b.st)),
                         Cur(s, Adv(s, b.st)) \in {"+", "-"})
            ELSE Finish(b)
        \* if self.current_char == '.': the dot, the digits
        FracDigits(st2, n2, dot) ==
            IF dot /\ Cur(s, st2) \notin IsDigit
            THEN LexErr("Bad number", st2.line, st2.col)
            ELSE Exp(ScanWhile(s, st2, n2, IF dot THEN IsDigit ELSE {}))
        Frac(a, dot) ==
            FracDigits(IF dot THEN Adv(s, a.st) ELSE a.st,
                       IF dot THEN Append(a.acc, ".") ELSE a.acc, dot)
        IntDigits(a) == Frac(a, Cur(s, a.st) = ".")
        \* if self.current_char == '-': the sign, then the digits
        Sign(st1, n1, neg) ==
            IF neg /\ Cur(s, st1) \notin IsDigit
            THEN LexErr("Bad number", st1.line, st1.col)
            ELSE IntDigits(ScanWhile(s, st1, n1, IsDigit))
        Start(neg) ==
            Sign(IF neg THEN Adv(s, st0) ELSE st0, IF neg THEN <<"-">> ELSE <<>>, neg)
    IN  Start(Cur(s, st0) = "-")

lex_ident_or_keyword(s, st0) ==
    LET Type(w) ==
            IF w \in {<<"t","r","u","e">>, <<"T","r","u","e">>} THEN "TRUE"
            ELSE IF w \in {<<"f","a","l","s","e">>, <<"F","a","l","s","e">>} THEN "FALSE"
            ELSE IF w \in {<<"n","u","l","l">>, <<"N","o","n","e">>} THEN "NULL"
            ELSE "IDENT"
        Word(a) == LexOk(a.st, Tok(Type(a.acc), a.acc, st0.line, st0.col))
    IN  Word(ScanWhile(s, st0, <<>>, WordChars))

(***************************************************************************)
(* Code points: ord() and chr() for the characters the model writes down.  *)
(***************************************************************************)
LowerSeq == <<"a","b","c","d","e","f","g","h","i","j","k","l","m",
              "n","o","p","q","r","s","t","u","v","w","x","y","z">>
UpperSeq == <<"A","B","C","D","E","F","G","H","I","J","K","L","M",
              "N","O","P","Q","R","S","T","U","V","W","X","Y","Z">>
DigitSeq == <<"0","1","2","3","4","5","6","7","8","9">>
BSP == "<BS>"           \* backspace, U+0008
FF == "<FF>"            \* form feed, U+000C

IndexOf(seq, c) == CHOOSE i \in 1..Len(seq) : seq[i] = c

OtherOrd == [c \in {BSP, TAB, NL, FF, CR, SP, "!", QUOTE, "#", "+", ",", "-", ".",
                    ":", "=", "[", BSL, "]", "_", "{", "}", "<e-acute>", "<arabic-3>"} |->
    CASE c = BSP -> 8 [] c = TAB -> 9 [] c = NL -> 10 [] c = FF -> 12 [] c = CR -> 13
      [] c = SP -> 32 [] c = "!" -> 33 [] c = QUOTE -> 34 [] c = "#" -> 35
      [] c = "+" -> 43 [] c = "," -> 44 [] c = "-" -> 45 [] c = "." -> 46
      [] c = ":" -> 58 [] c = "=" -> 61 [] c = "[" -> 91 [] c = BSL -> 92
      [] c = "]" -> 93 [] c = "_" -> 95 [] c = "{" -> 123 [] c = "}" -> 125
      [] c = "<e-acute>" -> 233 [] c = "<arabic-3>" -> 1635]

Known == AsciiLower \cup AsciiUpper \cup AsciiDigits \cup DOMAIN OtherOrd

Ord(c) ==
    IF c \in AsciiLower THEN 96 + IndexOf(LowerSeq, c)
    ELSE IF c \in AsciiUpper THEN 64 + IndexOf(UpperSeq, c)
    ELSE IF c \in AsciiDigits THEN 47 + IndexOf(DigitSeq, c)
    ELSE OtherOrd[c]

\* chr(n); a code point the model has no name for is written "U+<n>"
Chr(n) ==
    LET Named(cs) == IF cs # {} THEN CHOOSE c \in cs : TRUE ELSE "U+" \o ToString(n)
    IN  Named({c \in Known : Ord(c) = n})

HexDigit(c) ==
    IF c \in AsciiDigits THEN IndexOf(DigitSeq, c) - 1
    ELSE IF c \in AsciiLower THEN 9 + IndexOf(LowerSeq, c)
    ELSE 9 + IndexOf(UpperSeq, c)

\* int(hex_digits) read in base 10
HexValueDecimal(h) == ((HexDigit(h[1]) * 10 + HexDigit(h[2])) * 10 + HexDigit(h[3])) * 10 + HexDigit(h[4])

\* int(hex_digits, 16)
HexValue(h) == ((HexDigit(h[1]) * 16 + HexDigit(h[2])) * 16 + HexDigit(h[3])) * 16 + HexDigit(h[4])

\* for _ in range(4): advance(); check the digit.  st is on the character
\* before the next digit.
RECURSIVE HexScan(_, _, _, _)
HexScan(s, st, k, acc) ==
    IF k = 0 THEN [ok |-> TRUE, st |-> st, acc |-> acc]
    ELSE LET Digit(st1) ==
                 IF Cur(s, st1) \notin HexChars
                 THEN LexErr("Bad unicode escape", st1.line, st1.col)
                 ELSE HexScan(s, st1, k - 1, Append(acc, Cur(s, st1)))
         IN  Digit(Adv(s, st))

\* the while loop of lex_string; (line0, col0) is the opening quote
RECURSIVE StrLoop(_, _, _, _, _)
StrLoop(s, st, acc, line0, col0) ==
    LET Unescaped(esc) ==
            CASE esc = "n" -> <<NL>>
              [] esc = "t" -> <<TAB>>
              [] esc = "r" -> <<CR>>
              [] esc = QUOTE -> <<QUOTE>>
              [] esc = BSL -> <<BSL>>
              [] OTHER -> <<BSL, esc>>
        Unicode(h) ==
            IF ~h.ok THEN h
            ELSE StrLoop(s, Adv(s, h.st), Append(acc, Chr(HexValue(h.acc))), line0, col0)
        \* st1 is on the character after the backslash
        Escape(st1, esc) ==
            IF esc = NoChar THEN LexErr("Unterminated escape", st1.line, st1.col)
            ELSE IF esc = "u" THEN Unicode(HexScan(s, st1, 4, <<>>))
            ELSE StrLoop(s, Adv(s, st1), acc \o Unescaped(esc), line0, col0)
        Char(c) ==
            IF c = NoChar THEN LexErr("Unterminated string", line0, col0)
            ELSE IF c = QUOTE THEN LexOk(Adv(s, st), Tok("STRING", acc, line0, col0))
            ELSE IF c = BSL THEN Escape(Adv(s, st), Cur(s, Adv(s, st)))
            ELSE StrLoop(s, Adv(s, st), Append(acc, c), line0, col0)
    IN  Char(Cur(s, st))

\* lex_string taking the start position after it has stepped over the quote
lex_string_after_quote(s, st0) ==
    StrLoop(s, Adv(s, st0), <<>>, Adv(s, st0).line, Adv(s, st0).col)

lex_string(s, st0) == StrLoop(s, Adv(s, st0), <<>>, st0.line, st0.col)

Punct == {"=", "{", "}", "[", "]", ",", ":"}

PunctType(c) ==
    CASE c = "=" -> "EQUALS" [] c = "{" -> "LBRACE" [] c = "}" -> "RBRACE"
      [] c = "[" -> "LBRACKET" [] c = "]" -> "RBRACKET" [] c = "," -> "COMMA"
      [] c = ":" -> "COLON"

\* Lexer.get_next_token: the next token, EOF, or a LexerError
RECURSIVE get_next_token(_, _)
get_next_token(s, st) ==
    LET Comment(a) == LexOk(a.st, Tok("COMMENT", Strip(a.acc), st.line, st.col))
        Char(c) ==
            IF c = NoChar THEN LexOk(st, Tok("EOF", <<>>, st.line, st.col))
            ELSE IF c \in Blank \/ c = NL THEN get_next_token(s, Adv(s, st))
            ELSE IF c = "#" THEN Comment(ScanLine(s, Adv(s, st), <<>>))
            ELSE IF c \in IsAlpha \/ c = "_" THEN lex_ident_or_keyword(s, st)
            ELSE IF c \in IsDigit \/ (c = "-" /\ Peek(s, st) \in IsDigit) THEN lex_number(s, st)
            ELSE IF c = QUOTE THEN lex_string(s, st)
            ELSE IF c \in Punct THEN LexOk(Adv(s, st), Tok(PunctType(c), <<c>>, st.line, st.col))
            ELSE LexErr("Unexpected character", st.line, st.col)
    IN  Char(Cur(s, st))

\* The loop of Parser.__init__: every token up to and including EOF.  A token
\* that consumes nothing and is not EOF would be returned forever.
RECURSIVE LexAll(_, _, _)
LexAll(s, st, acc) ==
    LET Got(r) ==
            IF ~r.ok THEN r
            ELSE IF r.tok.type = "EOF" THEN [ok |-> TRUE, toks |-> Append(acc, r.tok)]
            ELSE IF r.st.pos = st.pos THEN
                [ok |-> FALSE, etype |-> "NoTermination", msg |-> "empty token",
                 line |-> st.line, col |-> st.col]
            ELSE LexAll(s, r.st, Append(acc, r.tok))
    IN  Got(get_next_token(s, st))

(***************************************************************************)
(* Python values.  None, str, bool, int and float are tagged; an int and   *)
(* a float are held as the text str() gives them, so that no width is      *)
(* lost.  An optional field is <<>> (None) or <<x>>.                       *)
(***************************************************************************)
None == <<>>
Some(x) == <<x>>
PyNone == [t |-> "None", v |-> <<>>]
PyStr(cs) == [t |-> "str", v |-> cs]
PyBool(b) == [t |-> "bool", v |-> IF b THEN <<"1">> ELSE <<"0">>]
PyInt(cs) == [t |-> "int", v |-> cs]
PyFloat(cs) == [t |-> "float", v |-> cs]

DigitOf(c) == IF c = "<arabic-3>" THEN "3" ELSE c    \* the decimal value of a digit

RECURSIVE DropZeros(_)
DropZeros(d) == IF Len(d) > 1 /\ Head(d) = "0" THEN DropZeros(Tail(d)) ELSE d

RECURSIVE DropAllZeros(_)
DropAllZeros(d) == IF d # <<>> /\ Head(d) = "0" THEN DropAllZeros(Tail(d)) ELSE d

RECURSIVE DropTrailingZeros(_)
DropTrailingZeros(d) ==
    IF d # <<>> /\ d[Len(d)] = "0" THEN DropTrailingZeros(SubSeq(d, 1, Len(d) - 1)) ELSE d

Digits(cs) == [i \in 1..Len(cs) |-> DigitOf(cs[i])]

\* str(int(num_str)) for num_str matching -?\d+
IntText(num) ==
    LET Signed(neg, d) == IF neg /\ d # <<"0">> THEN <<"-">> \o d ELSE d
    IN  Signed(num[1] = "-", DropZeros(Digits(IF num[1] = "-" THEN Tail(num) ELSE num)))

\* the value of a run of decimal digits (exponents only: they stay small)
RECURSIVE NatValue(_)
NatValue(d) ==
    IF d = <<>> THEN 0 ELSE NatValue(SubSeq(d, 1, Len(d) - 1)) * 10 + HexDigit(d[Len(d)])

RECURSIVE NatText(_)
NatText(n) == IF n < 10 THEN <<DigitSeq[n + 1]>> ELSE Append(NatText(n \div 10), DigitSeq[(n % 10) + 1])

Zeros(n) == [i \in 1..n |-> "0"]

PosOf(cs, c) ==
    LET First(I) == IF I = {} THEN 0 ELSE CHOOSE i \in I : \A j \in I : i <= j
    IN  First({i \in 1..Len(cs) : cs[i] = c})

\* repr(float(num_str)) for a decimal literal with at most 15 significant
\* digits and an exponent far from the range's ends (what the inputs hold)
FloatText(num) ==
    LET \* the shortest repr of 0.D * 10^decpt
        Repr(sign, D, decpt) ==
            IF D = <<>> THEN sign \o <<"0", ".", "0">>
            ELSE IF decpt <= -4 \/ decpt > 16 THEN
                sign \o <<D[1]>> \o (IF Len(D) > 1 THEN <<".">> \o Tail(D) ELSE <<>>)
                     \o <<"e">> \o (IF decpt < 1 THEN <<"-">> ELSE <<"+">>)
                     \o (IF decpt - 1 < 10 /\ 1 - decpt < 10 THEN <<"0">> ELSE <<>>)
                     \o NatText(IF decpt < 1 THEN 1 - decpt ELSE decpt - 1)
            ELSE IF decpt <= 0 THEN sign \o <<"0", ".">> \o Zeros(0 - decpt) \o D
            ELSE IF decpt >= Len(D) THEN sign \o D \o Zeros(decpt - Len(D)) \o <<".", "0">>
            ELSE sign \o SubSeq(D, 1, decpt) \o <<".">> \o SubSeq(D, decpt + 1, Len(D))
        Lead(sign, ip, all, lead, e10) ==
            Repr(sign, DropTrailingZeros(lead), Len(ip) - (Len(all) - Len(lead)) + e10)
        Mantissa(sign, ip, fp, e10) == Lead(sign, ip, ip \o fp, DropAllZeros(ip \o fp), e10)
        Point(sign, mant, di, e10) ==
            Mantissa(sign, Digits(IF di = 0 THEN mant ELSE SubSeq(mant, 1, di - 1)),
                     Digits(IF di = 0 THEN <<>> ELSE SubSeq(mant, di + 1, Len(mant))), e10)
        ExpDigits(exneg, exd) ==
            IF exneg THEN 0 - NatValue(Digits(exd)) ELSE NatValue(Digits(exd))
        Exponent(ex) ==
            ExpDigits(ex # <<>> /\ ex[1] = "-",
                      IF ex # <<>> /\ ex[1] \in {"+", "-"} THEN Tail(ex) ELSE ex)
        Parts(sign, mant, ex) == Point(sign, mant, PosOf(mant, "."), Exponent(ex))
        Split(sign, u, ei) ==
            Parts(sign, IF ei = 0 THEN u ELSE SubSeq(u, 1, ei - 1),
                  IF ei = 0 THEN <<>> ELSE SubSeq(u, ei + 1, Len(u)))
        Unsigned(sign, u) == Split(sign, u, PosOf(u, "e") + PosOf(u, "E"))
    IN  Unsigned(IF num[1] = "-" THEN <<"-">> ELSE <<>>,
                 IF num[1] = "-" THEN Tail(num) ELSE num)

\* re.match(r'-?\d+$', num_str) / re.fullmatch(r'-?\d+', num_str)
AllDigits(num) ==
    LET d == IF num # <<>> /\ num[1] = "-" THEN Tail(num) ELSE num
    IN  d # <<>> /\ \A i \in 1..Len(d) : d[i] \in IsDigit

\* int(num_str) if re.match(r'-?\d+$', num_str) else float(num_str)
NumberValue(num) == IF AllDigits(num) THEN PyInt(IntText(num)) ELSE PyFloat(FloatText(num))

(***************************************************************************)
(* AST nodes.  children is None or <<d>> with d an ordered dict: a         *)
(* sequence of [k, v] entries with distinct keys, in insertion order.      *)
(***************************************************************************)
Node(key, value, src_pos) ==
    [key |-> key, value |-> value, children |-> None, elements |-> None,
     comments_before |-> <<>>, comment_inline |-> None, src_pos |-> src_pos]

HasKey(d, k) == \E i \in 1..Len(d) : d[i].k = k

\* an assignment that moves a known key to the end
DictSetMoveToEnd(d, k, v) ==
    Append(SelectSeq(d, LAMBDA e : e.k # k), [k |-> k, v |-> v])

\* an assignment that keeps the first value of a key
DictSetFirst(d, k, v) ==
    IF HasKey(d, k) THEN d ELSE Append(d, [k |-> k, v |-> v])

\* d[k] = v on a Python dict: a known key keeps its place
DictSet(d, k, v) ==
    IF HasKey(d, k)
    THEN [i \in 1..Len(d) |-> IF d[i].k = k THEN [k |-> k, v |-> v] ELSE d[i]]
    ELSE Append(d, [k |-> k, v |-> v])

DictGet(d, k) == d[CHOOSE i \in 1..Len(d) : d[i].k = k].v

(***************************************************************************)
(* Reference parser (ker_parser/main.py).  T is the token list, pos the    *)
(* index of the current token, pend the pending_comments list.             *)
(***************************************************************************)
ParseErr(msg, line, col) ==
    [ok |-> FALSE, etype |-> "ParserError", msg |-> msg, line |-> line, col |-> col]

POk(node, pos, pend) == [ok |-> TRUE, node |-> node, pos |-> pos, pend |-> pend]

\* Parser.advance
NextPos(T, pos) == IF pos < Len(T) THEN pos + 1 ELSE pos

\* the attachment both parse and parse_block make after parse_statement, and
\* parse_value makes after an element: pending comments, then a comment on
\* the node's line
Attach(T, r) ==
    LET Inline(n1, inl) ==
            POk(IF inl THEN [n1 EXCEPT !.comment_inline = Some(T[r.pos].value)] ELSE n1,
                IF inl THEN NextPos(T, r.pos) ELSE r.pos, <<>>)
        Before(n1) ==
            Inline(n1, T[r.pos].type = "COMMENT" /\ n1.src_pos # None
                       /\ T[r.pos].line = n1.src_pos[1][1])
    IN  Before(IF r.pend # <<>> THEN [r.node EXCEPT !.comments_before = r.pend] ELSE r.node)

RECURSIVE parse_statement(_, _, _)
RECURSIVE parse_block(_, _, _, _)
RECURSIVE parse_value(_, _, _)
RECURSIVE ArrayLoop(_, _, _, _)

parse_statement(T, pos, pend) ==
    LET Block(key_tok, p) ==
            parse_block(T, p, pend,
                [Node(Some(key_tok.value), PyNone, Some(<<key_tok.line, key_tok.col>>))
                    EXCEPT !.children = Some(<<>>)])
        Value(key_tok, v) ==
            IF ~v.ok THEN v
            ELSE POk([Node(Some(key_tok.value), v.node.value,
                           Some(<<key_tok.line, key_tok.col>>))
                        EXCEPT !.children = v.node.children, !.elements = v.node.elements],
                     v.pos, v.pend)
        \* t1 is the token after the key, at p1; t2 the one after t1, at p2
        After(key_tok, p1, t1, p2, t2) ==
            IF t1.type = "COLON" THEN
                IF t2.type # "LBRACE"
                THEN ParseErr("Expected '{' after ':'", t2.line, t2.col)
                ELSE Block(key_tok, NextPos(T, p2))
            ELSE IF t1.type = "EQUALS" THEN
                IF t2.type = "LBRACE" THEN Block(key_tok, NextPos(T, p2))
                ELSE Value(key_tok, parse_value(T, p2, pend))
            ELSE IF t1.type = "LBRACE" THEN Block(key_tok, p2)
            ELSE ParseErr("Expected '=' or '{' after key", t1.line, t1.col)
        Key(key_tok, p1) ==
            IF key_tok.type \notin {"IDENT", "STRING"}
            THEN ParseErr("Expected key", key_tok.line, key_tok.col)
            ELSE After(key_tok, p1, T[p1], NextPos(T, p1), T[NextPos(T, p1)])
    IN  Key(T[pos], NextPos(T, pos))

parse_block(T, pos, pend, node) ==
    LET Put(a) ==
            parse_block(T, a.pos, a.pend,
                [node EXCEPT !.children =
                    Some(DictSet(node.children[1], a.node.key[1], a.node))])
        Stmt(r) == IF ~r.ok THEN r ELSE Put(Attach(T, r))
        At(cur) ==
            IF cur.type = "COMMENT"
            THEN parse_block(T, NextPos(T, pos), Append(pend, cur.value), node)
            ELSE IF cur.type = "RBRACE" THEN POk(node, NextPos(T, pos), pend)
            ELSE IF cur.type = "EOF"
            THEN ParseErr("Unclosed block", node.src_pos[1][1], node.src_pos[1][2])
            ELSE IF cur.type \in {"IDENT", "STRING"} THEN Stmt(parse_statement(T, pos, pend))
            ELSE IF cur.type = "COMMA" THEN parse_block(T, NextPos(T, pos), pend, node)
            ELSE ParseErr("Unexpected token in block", cur.line, cur.col)
    IN  At(T[pos])

\* an array loop that wants an element after every comma
ArrayLoopStrict(T, pos, pend, node) ==
    LET Sep(a, n1, sep) ==
            IF sep.type = "COMMA" THEN
                IF T[NextPos(T, a.pos)].type = "RBRACKET"
                THEN ParseErr("Unexpected token when expecting value",
                              T[NextPos(T, a.pos)].line, T[NextPos(T, a.pos)].col)
                ELSE ArrayLoop(T, NextPos(T, a.pos), a.pend, n1)
            ELSE IF sep.type = "RBRACKET" THEN ArrayLoop(T, a.pos, a.pend, n1)
            ELSE ParseErr("Expected comma or ']' in array", sep.line, sep.col)
        Put(a) ==
            Sep(a, [node EXCEPT !.elements = Some(Append(node.elements[1], a.node))], T[a.pos])
        Elem(r) == IF ~r.ok THEN r ELSE Put(Attach(T, r))
        At(cur) ==
            IF cur.type = "COMMENT"
            THEN ArrayLoop(T, NextPos(T, pos), Append(pend, cur.value), node)
            ELSE IF cur.type = "RBRACKET" THEN POk(node, NextPos(T, pos), pend)
            ELSE Elem(parse_value(T, pos, pend))
    IN  At(T[pos])

\* the while loop of parse_value's array branch
ArrayLoop(T, pos, pend, node) ==
    LET Sep(a, n1, sep) ==
            IF sep.type = "COMMA" THEN ArrayLoop(T, NextPos(T, a.pos), a.pend, n1)
            ELSE IF sep.type = "RBRACKET" THEN ArrayLoop(T, a.pos, a.pend, n1)
            ELSE ParseErr("Expected comma or ']' in array", sep.line, sep.col)
        Put(a) ==
            Sep(a, [node EXCEPT !.elements = Some(Append(node.elements[1], a.node))], T[a.pos])
        Elem(r) == IF ~r.ok THEN r ELSE Put(Attach(T, r))
        At(cur) ==
            IF cur.type = "COMMENT"
            THEN ArrayLoop(T, NextPos(T, pos), Append(pend, cur.value), node)
            ELSE IF cur.type = "RBRACKET" THEN POk(node, NextPos(T, pos), pend)
            ELSE Elem(parse_value(T, pos, pend))
    IN  At(T[pos])

parse_value(T, pos, pend) ==
    LET Lit(val, at, p) == POk(Node(None, val, at), p, pend)
        Value(tok, at, p) ==
            IF tok.type = "STRING" THEN Lit(PyStr(tok.value), at, p)
            ELSE IF tok.type = "NUMBER" THEN Lit(NumberValue(tok.value), at, p)
            ELSE IF tok.type \in {"TRUE", "FALSE"}
            THEN Lit(PyBool(tok.value \in {<<"t","r","u","e">>, <<"T","r","u","e">>}), at, p)
            ELSE IF tok.type = "NULL" THEN Lit(PyNone, at, p)
            ELSE IF tok.type = "LBRACKET"
            THEN ArrayLoop(T, p, pend, [Node(None, PyNone, at) EXCEPT !.elements = Some(<<>>)])
            ELSE IF tok.type = "LBRACE"
            THEN parse_block(T, p, pend, [Node(None, PyNone, at) EXCEPT !.children = Some(<<>>)])
            ELSE ParseErr("Unexpected token when expecting value", tok.line, tok.col)
    IN  Value(T[pos], Some(<<T[pos].line, T[pos].col>>), NextPos(T, pos))

\* the while loop of Parser.parse
RECURSIVE ParseLoop(_, _, _, _)
ParseLoop(T, pos, pend, rootn) ==
    LET Put(a) ==
            ParseLoop(T, a.pos, a.pend,
                [rootn EXCEPT !.children =
                    Some(DictSet(rootn.children[1], a.node.key[1], a.node))])
        Stmt(r) == IF ~r.ok THEN r ELSE Put(Attach(T, r))
        At(cur) ==
            IF cur.type = "EOF" THEN [ok |-> TRUE, node |-> rootn]
            ELSE IF cur.type = "COMMENT"
            THEN ParseLoop(T, NextPos(T, pos), Append(pend, cur.value), rootn)
            ELSE IF cur.type \in {"IDENT", "STRING"} THEN Stmt(parse_statement(T, pos, pend))
            ELSE IF cur.type = "COMMA" THEN ParseLoop(T, NextPos(T, pos), pend, rootn)
            ELSE ParseErr("Unexpected token at top-level", cur.line, cur.col)
    IN  At(T[pos])

\* Parser.parse on the materialised tokens
parse(T) == ParseLoop(T, 1, <<>>, [Node(None, PyNone, Some(<<1, 1>>)) EXCEPT !.children = Some(<<>>)])

\* Parser(text).parse(): a LexerError from the constructor, else the parse
ParseText(s) ==
    LET Lexed(l) == IF l.ok THEN parse(l.toks) ELSE l
    IN  Lexed(LexAll(s, LexStart, <<>>))

(***************************************************************************)
(* The .ker pretty-printer (dumps_to_ker; the two copies, in               *)
(* ker_parser/main.py and ker/json_support.py, are the same code).         *)
(***************************************************************************)
HexSeq == <<"0","1","2","3","4","5","6","7","8","9","a","b","c","d","e","f">>

\* '\\u{0:04x}'.format(n)
UEscape(n) ==
    <<BSL, "u", HexSeq[((n \div 4096) % 16) + 1], HexSeq[((n \div 256) % 16) + 1],
      HexSeq[((n \div 16) % 16) + 1], HexSeq[(n % 16) + 1]>>

MaxCodePoint == 65535

\* ord() of any character the lexer can have produced
OrdAny(c) ==
    IF c \in Known THEN Ord(c)
    ELSE CHOOSE n \in 0..MaxCodePoint : c = "U+" \o ToString(n)

\* one character of json.dumps(s, ensure_ascii=ascii)
JsonChar(c, ascii) ==
    LET Other(n) == IF n < 32 \/ (ascii /\ n > 126) THEN UEscape(n) ELSE <<c>>
    IN  CASE c = QUOTE -> <<BSL, QUOTE>>
          [] c = BSL -> <<BSL, BSL>>
          [] c = NL -> <<BSL, "n">>
          [] c = CR -> <<BSL, "r">>
          [] c = TAB -> <<BSL, "t">>
          [] c = BSP -> <<BSL, "b">>
          [] c = FF -> <<BSL, "f">>
          [] OTHER -> Other(OrdAny(c))

\* json.dumps(s, ensure_ascii=ascii) for a str
JsonDumpsStr(cs, ascii) ==
    <<QUOTE>> \o Concat([i \in 1..Len(cs) |-> JsonChar(cs[i], ascii)]) \o <<QUOTE>>

lit_repr(val) ==
    IF val.t = "str" THEN JsonDumpsStr(val.v, FALSE)
    ELSE IF val.t = "bool" THEN (IF val = PyBool(TRUE) THEN <<"t","r","u","e">>
                                 ELSE <<"f","a","l","s","e">>)
    ELSE IF val.t = "None" THEN <<"n","u","l","l">>
    ELSE val.v

\* re.match(r'^[A-Za-z_][A-Za-z0-9_]*$', k): $ also matches before a final newline
IdentMatch(k) ==
    LET Body(b) ==
            /\ b # <<>>
            /\ b[1] \in AsciiLetters \cup {"_"}
            /\ \A i \in 2..Len(b) : b[i] \in WordChars
    IN  Body(IF k # <<>> /\ k[Len(k)] = NL THEN SubSeq(k, 1, Len(k) - 1) ELSE k)

identifier_repr(k) == IF IdentMatch(k) THEN k ELSE JsonDumpsStr(k, TRUE)

IndentStr == <<SP, SP, SP, SP>>     \* indent_str="    "
InlineMax == 5                      \* len(node.elements) <= 5

Indent(level) == Concat([i \in 1..level |-> IndentStr])

CommentLines(ind, cs) == [i \in 1..Len(cs) |-> ind \o <<"#", SP>> \o cs[i]]

InlineTail(node) ==
    IF node.comment_inline # None /\ node.comment_inline[1] # <<>>
    THEN <<SP, SP, "#", SP>> \o node.comment_inline[1] ELSE <<>>

\* simple = all(e.value is not None and not e.children and not e.elements ...)
Simple(elems) ==
    \A i \in 1..Len(elems) :
        /\ elems[i].value # PyNone
        /\ (elems[i].children = None \/ elems[i].children[1] = <<>>)
        /\ (elems[i].elements = None \/ elems[i].elements[1] = <<>>)

Inlined(elems) == Simple(elems) /\ Len(elems) <= InlineMax

InlineArray(elems) ==
    <<"[">> \o Join([i \in 1..Len(elems) |-> lit_repr(elems[i].value)], <<",", SP>>) \o <<"]">>

RECURSIVE node_lines(_, _, _)
node_lines(node, key, level) ==
    LET \* ind is indent_str * level, before the comments_before lines, name
        \* identifier_repr(key) (read only where key is not None)
        Lines(ind, before, name) ==
            IF node.children # None THEN
                before
                \o <<IF key = None THEN ind \o <<"{">> ELSE ind \o name \o <<SP, "{">> >>
                \o Concat([i \in 1..Len(node.children[1]) |->
                       node_lines(node.children[1][i].v, Some(node.children[1][i].k), level + 1)])
                \o <<ind \o <<"}">> >>
            ELSE IF node.elements # None THEN
                IF Inlined(node.elements[1])
                THEN before
                     \o <<ind \o (IF key = None THEN <<>> ELSE name \o <<SP, "=", SP>>)
                          \o InlineArray(node.elements[1])>>
                ELSE before
                     \o <<ind \o (IF key = None THEN <<>> ELSE name \o <<SP, "=", SP>>) \o <<"[">> >>
                     \o Concat([i \in 1..Len(node.elements[1]) |->
                            CommentLines(ind \o IndentStr, node.elements[1][i].comments_before)
                            \o (IF node.elements[1][i].children # None
                                   \/ node.elements[1][i].elements # None
                                THEN node_lines(node.elements[1][i], None, level + 1)
                                ELSE <<ind \o IndentStr \o lit_repr(node.elements[1][i].value)
                                       \o InlineTail(node.elements[1][i])>>)])
                     \o <<ind \o <<"]">> >>
            ELSE before
                 \o <<ind \o (IF key = None THEN <<>> ELSE name \o <<SP, "=", SP>>)
                      \o lit_repr(node.value) \o InlineTail(node)>>
    IN  Lines(Indent(level), CommentLines(Indent(level), node.comments_before),
              IF key = None THEN <<>> ELSE identifier_repr(key[1]))

dumps_to_ker(root_node) ==
    IF root_node.children # None /\ root_node.children[1] # <<>>
    THEN LET d == root_node.children[1]
         IN  Join(Concat([i \in 1..Len(d) |-> node_lines(d[i].v, Some(d[i].k), 0)]), <<NL>>)
    ELSE <<>>

(***************************************************************************)
(* The ker package's lexer (ker/lexer.py).                                 *)
(***************************************************************************)
\* the while loop of ker's lex_string
RECURSIVE KerStrLoop(_, _, _, _, _)
KerStrLoop(s, st, acc, line0, col0) ==
    LET \* st1 is on the character after the backslash
        Escape(st1, esc) ==
            IF esc = NoChar THEN LexErr("Unterminated string", line0, col0)
            ELSE KerStrLoop(s, Adv(s, st1), Append(acc, esc), line0, col0)
        Char(c) ==
            IF c = NoChar THEN LexErr("Unterminated string", line0, col0)
            ELSE IF c = QUOTE THEN LexOk(Adv(s, st), Tok("STRING", acc, line0, col0))
            ELSE IF c = BSL THEN Escape(Adv(s, st), Cur(s, Adv(s, st)))
            ELSE KerStrLoop(s, Adv(s, st), Append(acc, c), line0, col0)
    IN  Char(Cur(s, st))

ker_lex_string(s, st0) == KerStrLoop(s, Adv(s, st0), <<>>, st0.line, st0.col)

ker_lex_number(s, st0) ==
    LET Num(a) == LexOk(a.st, Tok("NUMBER", a.acc, st0.line, st0.col))
        Start(neg) ==
            Num(ScanWhile(s, IF neg THEN Adv(s, st0) ELSE st0,
                          IF neg THEN <<"-">> ELSE <<>>, IsDigit \cup {"."}))
    IN  Start(Cur(s, st0) = "-")

\* str.lower() of one character
Lower(c) == IF c \in AsciiUpper THEN LowerSeq[IndexOf(UpperSeq, c)] ELSE c

ker_lex_ident_or_keyword(s, st0) ==
    LET Type(kw) ==
            IF kw = <<"t","r","u","e">> THEN "TRUE"
            ELSE IF kw = <<"f","a","l","s","e">> THEN "FALSE"
            ELSE IF kw = <<"n","u","l","l">> THEN "NULL"
            ELSE "IDENT"
        Word(a) ==
            LexOk(a.st, Tok(Type([i \in 1..Len(a.acc) |-> Lower(a.acc[i])]), a.acc,
                            st0.line, st0.col))
    IN  Word(ScanWhile(s, st0, <<>>, IsAlnum \cup {"_"}))

RECURSIVE ker_get_next_token(_, _)
ker_get_next_token(s, st) ==
    LET Comment(a) == LexOk(a.st, Tok("COMMENT", Strip(a.acc), st.line, st.col))
        Char(c) ==
            IF c = NoChar THEN LexOk(st, Tok("EOF", <<>>, st.line, st.col))
            ELSE IF c \in Blank \/ c = NL THEN ker_get_next_token(s, Adv(s, st))
            ELSE IF c = "#" THEN Comment(ScanLine(s, Adv(s, st), <<>>))
            ELSE IF c \in IsAlpha \/ c = "_" THEN ker_lex_ident_or_keyword(s, st)
            ELSE IF c \in IsDigit \/ (c = "-" /\ Peek(s, st) \in IsDigit) THEN ker_lex_number(s, st)
            ELSE IF c = QUOTE THEN ker_lex_string(s, st)
            ELSE IF c \in Punct THEN LexOk(Adv(s, st), Tok(PunctType(c), <<c>>, st.line, st.col))
            ELSE LexErr("Unexpected char", st.line, st.col)
    IN  Char(Cur(s, st))

\* The tokens the parser's calls of get_next_token yield one by one.  The
\* parser lexes on demand: a LexerError is the last entry, type "ERROR",
\* raised when the parser advances onto it.
RECURSIVE KerLexAll(_, _, _)
KerLexAll(s, st, acc) ==
    LET Got(r) ==
            IF ~r.ok THEN Append(acc, [type |-> "ERROR", value |-> <<>>, line |-> r.line,
                                       col |-> r.col, msg |-> r.msg])
            ELSE IF r.tok.type = "EOF" THEN Append(acc, r.tok @@ [msg |-> ""])
            ELSE KerLexAll(s, r.st, Append(acc, r.tok @@ [msg |-> ""]))
    IN  Got(ker_get_next_token(s, st))

KerLexRaised(T) == T[Len(T)].type = "ERROR"

(***************************************************************************)
(* The ker package's parser (ker/parser.py).                               *)
(***************************************************************************)
\* Node(value, src_pos); it has no key attribute
KNode(value, src_pos) ==
    [value |-> value, children |-> None, elements |-> None,
     comments_before |-> <<>>, comment_inline |-> None, src_pos |-> src_pos]

KOk(node, pos, pend) == [ok |-> TRUE, node |-> node, pos |-> pos, pend |-> pend]

KRaised(T, pos) == LexErr(T[pos].msg, T[pos].line, T[pos].col)

ValueErr(msg) == [ok |-> FALSE, etype |-> "ValueError", msg |-> msg, line |-> 0, col |-> 0]

\* float(s) accepts the token's text: at most one '.'
FloatAccepts(num) == Cardinality({i \in 1..Len(num) : num[i] = "."}) <= 1

RECURSIVE ker_parse_block(_, _, _, _)
RECURSIVE ker_parse_value(_, _, _)
RECURSIVE KerArrayLoop(_, _, _, _)
RECURSIVE KerEntry(_, _, _)

\* what parse and parse_block share: the statement after its key token;
\* pos is the token after the key
KerEntry(T, pos, pend) ==
    IF T[pos].type = "ERROR" THEN KRaised(T, pos)
    ELSE IF T[pos].type = "LBRACE"
    THEN ker_parse_block(T, NextPos(T, pos), pend,
            [KNode(PyNone, Some(<<T[pos].line, T[pos].col>>)) EXCEPT !.children = Some(<<>>)])
    ELSE IF T[pos].type # "EQUALS" THEN ParseErr("Expected '='", 0, 0)
    ELSE ker_parse_value(T, NextPos(T, pos), pend)

KerAttach(r) ==
    IF r.pend # <<>> THEN KOk([r.node EXCEPT !.comments_before = r.pend], r.pos, <<>>)
    ELSE r

ker_parse_block(T, pos, pend, node) ==
    LET Put(key, a) ==
            ker_parse_block(T, a.pos, a.pend,
                [node EXCEPT !.children = Some(DictSet(node.children[1], key, a.node))])
        Entry(key, r) == IF ~r.ok THEN r ELSE Put(key, KerAttach(r))
        At(cur) ==
            IF cur.type = "ERROR" THEN KRaised(T, pos)
            ELSE IF cur.type = "RBRACE" THEN KOk(node, NextPos(T, pos), pend)
            ELSE IF cur.type = "COMMENT"
            THEN ker_parse_block(T, NextPos(T, pos), Append(pend, cur.value), node)
            ELSE IF cur.type # "IDENT" THEN ParseErr("Expected key in block", 0, 0)
            ELSE Entry(cur.value, KerEntry(T, NextPos(T, pos), pend))
    IN  At(T[pos])

\* while self.current.type != Token.RBRACKET: ...
KerArrayLoop(T, pos, pend, node) ==
    LET Elem(r) ==
            IF ~r.ok THEN r
            ELSE KerArrayLoop(T, IF T[r.pos].type = "COMMA" THEN NextPos(T, r.pos) ELSE r.pos,
                              r.pend,
                              [node EXCEPT !.elements = Some(Append(node.elements[1], r.node))])
    IN  IF T[pos].type = "ERROR" THEN KRaised(T, pos)
        ELSE IF T[pos].type = "RBRACKET" THEN KOk(node, NextPos(T, pos), pend)
        ELSE Elem(ker_parse_value(T, pos, pend))

ker_parse_value(T, pos, pend) ==
    LET Lit(val, at, p) == KOk(KNode(val, at), p, pend)
        Value(tok, at, p) ==
            IF tok.type = "ERROR" THEN KRaised(T, pos)
            ELSE IF T[p].type = "ERROR"
                    /\ tok.type \in {"STRING", "NUMBER", "TRUE", "FALSE", "NULL",
                                     "LBRACKET", "LBRACE"}
            THEN KRaised(T, p)
            ELSE IF tok.type = "STRING" THEN Lit(PyStr(tok.value), at, p)
            ELSE IF tok.type = "NUMBER" THEN
                IF AllDigits(tok.value) THEN Lit(PyInt(IntText(tok.value)), at, p)
                ELSE IF FloatAccepts(tok.value) THEN Lit(PyFloat(FloatText(tok.value)), at, p)
                ELSE ValueErr("could not convert string to float")
            ELSE IF tok.type \in {"TRUE", "FALSE"}
            THEN Lit(PyBool([i \in 1..Len(tok.value) |-> Lower(tok.value[i])]
                            = <<"t","r","u","e">>), at, p)
            ELSE IF tok.type = "NULL" THEN Lit(PyNone, at, p)
            ELSE IF tok.type = "LBRACKET"
            THEN KerArrayLoop(T, p, pend, [KNode(PyNone, at) EXCEPT !.elements = Some(<<>>)])
            ELSE IF tok.type = "LBRACE"
            THEN ker_parse_block(T, p, pend, [KNode(PyNone, at) EXCEPT !.children = Some(<<>>)])
            ELSE ParseErr("Unexpected token", 0, 0)
    IN  Value(T[pos], Some(<<T[pos].line, T[pos].col>>), NextPos(T, pos))

\* the while loop of ker's Parser.parse
RECURSIVE KerParseLoop(_, _, _, _)
KerParseLoop(T, pos, pend, rootn) ==
    LET Put(key, a) ==
            KerParseLoop(T, a.pos, a.pend,
                [rootn EXCEPT !.children = Some(DictSet(rootn.children[1], key, a.node))])
        Entry(key, r) == IF ~r.ok THEN r ELSE Put(key, KerAttach(r))
        At(cur) ==
            IF cur.type = "ERROR" THEN KRaised(T, pos)
            ELSE IF cur.type = "EOF" THEN [ok |-> TRUE, node |-> rootn]
            ELSE IF cur.type = "COMMENT"
            THEN KerParseLoop(T, NextPos(T, pos), Append(pend, cur.value), rootn)
            ELSE IF cur.type # "IDENT" THEN ParseErr("Expected identifier", cur.line, cur.col)
            ELSE Entry(cur.value, KerEntry(T, NextPos(T, pos), pend))
    IN  At(T[pos])

\* Parser.parse of the ker package over the tokens its lexer yields
KerParseToks(T) ==
    KerParseLoop(T, 1, <<>>, [KNode(PyNone, None) EXCEPT !.children = Some(<<>>)])

\* Parser(text).parse() of the ker package
KerParseText(s) == KerParseToks(KerLexAll(s, LexStart, <<>>))

(***************************************************************************)
(* The JSON bridge: plain data is a tagged value; a dict is [t |-> "dict", *)
(* v |-> entries in order], a list is [t |-> "list", v |-> items].         *)
(***************************************************************************)
PyDict(d) == [t |-> "dict", v |-> d]
PyList(l) == [t |-> "list", v |-> l]

RECURSIVE py_to_node(_, _)

\* py_to_node building every node as Node(key=key, value=value)
py_to_node_valued(value, key) ==
    LET n == Node(key, value, None)
    IN  IF value.t = "dict"
        THEN [n EXCEPT !.children = Some([i \in 1..Len(value.v) |->
                 [k |-> value.v[i].k, v |-> py_to_node(value.v[i].v, Some(value.v[i].k))]])]
        ELSE IF value.t = "list"
        THEN [n EXCEPT !.elements = Some([i \in 1..Len(value.v) |-> py_to_node(value.v[i], None)])]
        ELSE n

py_to_node(value, key) ==
    LET n == Node(key, PyNone, None)
    IN  IF value.t = "dict"
        THEN [n EXCEPT !.children = Some([i \in 1..Len(value.v) |->
                 [k |-> value.v[i].k, v |-> py_to_node(value.v[i].v, Some(value.v[i].k))]])]
        ELSE IF value.t = "list"
        THEN [n EXCEPT !.elements = Some([i \in 1..Len(value.v) |-> py_to_node(value.v[i], None)])]
        ELSE [n EXCEPT !.value = value]

\* all(e.value is not None and e.children is None and e.elements is None ...)
AllLiterals(elems) ==
    \A i \in 1..Len(elems) :
        elems[i].value # PyNone /\ elems[i].children = None /\ elems[i].elements = None

RECURSIVE node_to_json(_)

\* node_to_json testing the children and elements for truth, not for None
node_to_json_truthy(node) ==
    IF node.children # None /\ node.children[1] # <<>>
    THEN PyDict([i \in 1..Len(node.children[1]) |->
            [k |-> node.children[1][i].k, v |-> node_to_json(node.children[1][i].v)]])
    ELSE IF node.elements # None /\ node.elements[1] # <<>>
    THEN PyList([i \in 1..Len(node.elements[1]) |-> node_to_json(node.elements[1][i])])
    ELSE node.value

node_to_json(node) ==
    IF node.children # None
    THEN PyDict([i \in 1..Len(node.children[1]) |->
            [k |-> node.children[1][i].k, v |-> node_to_json(node.children[1][i].v)]])
    ELSE IF node.elements # None
    THEN IF AllLiterals(node.elements[1])
         THEN PyList([i \in 1..Len(node.elements[1]) |-> node.elements[1][i].value])
         ELSE PyList([i \in 1..Len(node.elements[1]) |-> node_to_json(node.elements[1][i])])
    ELSE node.value

\* from_json_string after json.loads: the top level must be a dict
from_json(value) ==
    IF value.t # "dict" THEN ValueErr("JSON top-level must be an object")
    ELSE [ok |-> TRUE,
          node |-> [Node(None, PyNone, Some(<<1, 1>>)) EXCEPT !.children =
                      Some([i \in 1..Len(value.v) |->
                          [k |-> value.v[i].k, v |-> py_to_node(value.v[i].v, Some(value.v[i].k))]])]]

\* ' ' * indent * level after a newline
JsonNewline(indent, level) == <<NL>> \o [i \in 1..(indent * level) |-> SP]

RECURSIVE JsonDumps(_, _, _)
\* json.dumps(v, indent=indent, ensure_ascii=False) for an int indent, at a
\* nesting level (floats are finite here: repr is what the encoder writes)
JsonDumps(v, indent, level) ==
    LET Items(parts, open, close) ==
            IF parts = <<>> THEN <<open, close>>
            ELSE <<open>> \o JsonNewline(indent, level + 1)
                 \o Join(parts, <<",">> \o JsonNewline(indent, level + 1))
                 \o JsonNewline(indent, level) \o <<close>>
    IN  IF v.t = "dict"
        THEN Items([i \in 1..Len(v.v) |-> JsonDumpsStr(v.v[i].k, FALSE) \o <<":", SP>>
                        \o JsonDumps(v.v[i].v, indent, level + 1)], "{", "}")
        ELSE IF v.t = "list"
        THEN Items([i \in 1..Len(v.v) |-> JsonDumps(v.v[i], indent, level + 1)], "[", "]")
        ELSE IF v.t = "str" THEN JsonDumpsStr(v.v, FALSE)
        ELSE IF v.t = "bool" THEN (IF v = PyBool(TRUE) THEN <<"t","r","u","e">>
                                   ELSE <<"f","a","l","s","e">>)
        ELSE IF v.t = "None" THEN <<"n","u","l","l">>
        ELSE v.v

RECURSIVE SplitAt(_, _, _)
\* s.split(c); cur is the piece being read
SplitAt(s, c, cur) ==
    IF s = <<>> THEN <<cur>>
    ELSE IF Head(s) = c THEN <<cur>> \o SplitAt(Tail(s), c, <<>>)
    ELSE SplitAt(Tail(s), c, Append(cur, Head(s)))

\* group 1 of \[\s*([^\[\]\{\}]+?)\s*\] for a match around between: the
\* greedy \s* and the lazy group leave the text without the blanks at its
\* ends, or its last blank when it is all blanks
MatchGroup(between) ==
    IF Strip(between) = <<>> THEN <<between[Len(between)]>> ELSE Strip(between)

\* '[' + ', '.join(x.strip() for x in match.group(1).split(',')) + ']'
compact_array(group) ==
    LET Joined(ps) == Join([i \in 1..Len(ps) |-> Strip(ps[i])], <<",", SP>>)
    IN  <<"[">> \o Joined(SplitAt(group, ",", <<>>)) \o <<"]">>

JsonBrackets == {"[", "]", "{", "}"}

\* the first index after i that holds a bracket or a brace, 0 if none does
NextBracket(s, i) ==
    LET First(I) == IF I = {} THEN 0 ELSE CHOOSE j \in I : \A k \in I : j <= k
    IN  First({j \in (i + 1)..Len(s) : s[j] \in JsonBrackets})

RECURSIVE ReSub(_, _)
\* re.sub(r'\[\s*([^\[\]\{\}]+?)\s*\]', compact_array, text) from index i on:
\* a match begins at a [ whose next bracket is a ] with something between
ReSub(s, i) ==
    IF i > Len(s) THEN <<>>
    ELSE LET At(j) ==
                 IF s[i] = "[" /\ j > i + 1 /\ s[j] = "]"
                 THEN compact_array(MatchGroup(SubSeq(s, i + 1, j - 1))) \o ReSub(s, j + 1)
                 ELSE <<s[i]>> \o ReSub(s, i + 1)
         IN  At(NextBracket(s, i))

\* to_json(root_node, indent)
to_json(root_node, indent) ==
    LET data == IF root_node.children # None
                THEN PyDict([i \in 1..Len(root_node.children[1]) |->
                        [k |-> root_node.children[1][i].k,
                         v |-> node_to_json(root_node.children[1][i].v)]])
                ELSE PyDict(<<>>)
    IN  ReSub(JsonDumps(data, indent, 0), 1)

\* ker/json_support.py
RECURSIVE ker_py_to_node(_, _)
ker_py_to_node(val, key) ==
    LET n == [KNode(PyNone, None) @@ [key |-> key] EXCEPT !.comments_before = <<>>]
    IN  IF val.t = "dict"
        THEN [n EXCEPT !.children = Some([i \in 1..Len(val.v) |->
                 [k |-> val.v[i].k, v |-> ker_py_to_node(val.v[i].v, Some(val.v[i].k))]])]
        ELSE IF val.t = "list"
        THEN [n EXCEPT !.elements = Some([i \in 1..Len(val.v) |-> ker_py_to_node(val.v[i], None)])]
        ELSE [n EXCEPT !.value = val]

RECURSIVE ker_node_to_json(_)
ker_node_to_json(node) ==
    IF node.children # None
    THEN PyDict([i \in 1..Len(node.children[1]) |->
            [k |-> node.children[1][i].k, v |-> ker_node_to_json(node.children[1][i].v)]])
    ELSE IF node.elements # None
    THEN PyList([i \in 1..Len(node.elements[1]) |-> ker_node_to_json(node.elements[1][i])])
    ELSE node.value

(***************************************************************************)
(* The ker package's API (ker/wrapper.py).                                 *)
(***************************************************************************)
\* loads catching KerError only: any other exception passes through
KerErrOwnOnly(cause) ==
    IF cause.etype \in {"LexerError", "ParserError"}
    THEN [ok |-> FALSE, etype |-> "KerError", cause |-> cause.etype, msg |-> cause.msg,
          line |-> cause.line, col |-> cause.col]
    ELSE cause

KerErr(cause) == [ok |-> FALSE, etype |-> "KerError", cause |-> cause.etype, msg |-> cause.msg,
                  line |-> cause.line, col |-> cause.col]

\* loads: every exception becomes a KerError
loads(s) ==
    LET Parsed(r) == IF r.ok THEN [ok |-> TRUE, data |-> ker_node_to_json(r.node)] ELSE KerErr(r)
    IN  Parsed(KerParseText(s))

\* dumps(obj): obj.items() needs a dict
dumps(obj) ==
    IF obj.t # "dict"
    THEN [ok |-> FALSE, etype |-> "AttributeError", msg |-> "no attribute 'items'",
          line |-> 0, col |-> 0]
    ELSE [ok |-> TRUE,
          text |-> dumps_to_ker([KNode(PyNone, None) @@ [key |-> None] EXCEPT !.children =
                      Some([i \in 1..Len(obj.v) |->
                          [k |-> obj.v[i].k, v |-> ker_py_to_node(obj.v[i].v, Some(obj.v[i].k))]])])]

(***************************************************************************)
(* The command line of the ker package (ker/tool.py), for the commands     *)
(* fmt and to-json.  A file system is a function from the paths to None    *)
(* or <<content>>; "-" is a path like any other to open().                 *)
(***************************************************************************)
Paths == {"-", "in.ker", "gone.ker", "out.json"}

OsErr(etype, msg) == [ok |-> FALSE, etype |-> etype, msg |-> msg, line |-> 0, col |-> 0]

\* open(path, 'r').read()
ReadFile(fs, path) ==
    IF fs[path] = None THEN OsErr("FileNotFoundError", path)
    ELSE [ok |-> TRUE, text |-> fs[path][1]]

\* read_file_or_stdin(path)
read_file_or_stdin(fs, in, path) ==
    IF path = "-" THEN [ok |-> TRUE, text |-> in] ELSE ReadFile(fs, path)

\* dumps(loads(text)) of the fmt command
FmtText(t) ==
    LET Loaded(d) == IF d.ok THEN dumps(d.data) ELSE d
    IN  Loaded(loads(t))

\* ker_to_json(ker_path, json_path, indent): the files after it, or the
\* exception; the output is opened only after the parse
ker_to_json(fs, ker_path, json_path, indent) ==
    LET Parsed(r) ==
            IF ~r.ok THEN r
            ELSE [ok |-> TRUE,
                  files |-> [fs EXCEPT ![json_path] =
                                Some(JsonDumps(ker_node_to_json(r.node), indent, 0))]]
        Opened(f) == IF f.ok THEN Parsed(KerParseText(f.text)) ELSE f
    IN  Opened(ReadFile(fs, ker_path))

\* the except clauses of main: the message and the exit status
ExitStatus(e) == IF e.etype = "FileNotFoundError" THEN 2 ELSE 1

Message(e, input) ==
    IF e.etype = "FileNotFoundError" THEN <<"Error: file not found", input>>
    ELSE <<"Error", e.msg>>

(***************************************************************************)
(* The inputs.  A run takes one source text and puts it through both       *)
(* implementations; the texts are the lines-built documents, the array     *)
(* statements and the string-literal statements below.                     *)
(***************************************************************************)
MaxLines == 4       \* lines of a document
MaxElems == 6       \* elements of an array of plain literals
MaxShort == 2       \* elements of an array of mixed elements
MaxStr == 3         \* characters after the opening quote of a string
MaxNum == 4         \* characters of a number's spelling
MaxHex == 4         \* characters after the u of a unicode escape

\* all sequences over S of length 0..n
SeqsUpTo(S, n) == UNION {[1..k -> S] : k \in 0..n}

DocLines ==
    { <<"a", SP, "=", SP, "1">>,
      <<"a", SP, "=", SP, "2", SP, "#", SP, "d">>,
      <<"#", SP, "c">>,
      <<"a", SP, "{">>,
      <<"}">>,
      <<"b", SP, "=", SP, "[", "1", ",", "]">> }

DocTexts == {Join(ls, <<NL>>) : ls \in SeqsUpTo(DocLines, MaxLines)}

PlainElems == { <<"1">>, <<"n","u","l","l">> }

MixedElems ==
    { <<QUOTE, "x", QUOTE>>, <<"{", "}">>, <<"[", "1", "]">>,
      <<"#", "c", NL, "1">>, <<"#", "c", NL, "{", "}">>, <<"1", SP, "#", "d", NL>> }

ArrayStmt(es, trail) ==
    <<"a", "=", "[">> \o Join(es, <<",">>) \o (IF trail THEN <<",">> ELSE <<>>) \o <<"]">>

ArrayTexts ==
    {ArrayStmt(es, tr) : es \in SeqsUpTo(PlainElems, MaxElems), tr \in BOOLEAN}
    \cup {ArrayStmt(es, tr) : es \in SeqsUpTo(MixedElems, MaxShort), tr \in BOOLEAN}

StrChars == {"1", "u", BSL, QUOTE, NL}

StrPrefixes == { <<"a", "=", QUOTE>>, <<"#", "c", NL, "a", SP, "=", NL, SP, QUOTE>> }

StrTexts == {p \o b : p \in StrPrefixes, b \in SeqsUpTo(StrChars, MaxStr)}

\* statements that open a block, the block closed or left open
BlockOpeners ==
    { <<"a", SP, "{">>, <<"a", ":", SP, "{">>, <<"a", SP, "=", SP, "{">>,
      <<"a", "=", "[", "{">> }

BlockBefore == { <<>>, <<"#", SP, "c", NL>>, <<"b", "=", "1", NL>> }

BlockBodies == { <<>>, <<NL, "b", "=", "1">>, <<NL, "#", "d">>, <<NL, "b", SP, "{">> }

BlockTails == { <<>>, <<NL, "}">>, <<NL, "}", "}">>, <<NL, "}", "]">> }

BlockTexts ==
    {b \o o \o w \o t : b \in BlockBefore, o \in BlockOpeners, w \in BlockBodies, t \in BlockTails}

\* texts with a character that begins no token of the grammar
OddChars == {"<e-acute>", "<arabic-3>", "!", "-", "+"}

OddTexts ==
    {p \o <<c>> \o q : p \in {<<>>, <<"a", "=">>, <<"a", "=", "1", NL>>},
                       c \in OddChars,
                       q \in {<<>>, <<"1">>, <<SP, "b">>}}

\* statements whose value is spelled with the characters of a number
NumChars == {"0", "1", "-", ".", "e"}

NumTexts == {<<"a", "=">> \o b : b \in SeqsUpTo(NumChars, MaxNum)}

\* string values with one escape: a backslash and a character, or \u and
\* up to MaxHex characters, with and without the closing quote
EscChars == {"n", "t", "r", QUOTE, BSL, "x", "b"}

HexPick == {"0", "4", "a", "A", "g"}

EscTexts ==
    {<<"a", "=", QUOTE, BSL, c>> \o q \o <<QUOTE>> : c \in EscChars, q \in {<<>>, <<"1">>}}
    \cup {<<"a", "=", QUOTE, BSL, "u">> \o h \o q :
            h \in SeqsUpTo(HexPick, MaxHex), q \in {<<>>, <<QUOTE>>}}

\* string values, array elements and keys spelled with the characters the
\* JSON post-processing of to_json looks for
MaxBr == 3          \* characters of such a string

BracketChars == {"[", "]", ",", SP, "x"}

BracketTexts ==
    UNION {{ <<"a", "=", QUOTE>> \o b \o <<QUOTE>>,
             <<"a", "=", "[", QUOTE>> \o b \o <<QUOTE, ",", "1", "]">>,
             <<QUOTE>> \o b \o <<QUOTE, "=", "1">> } : b \in SeqsUpTo(BracketChars, MaxBr)}

\* the indent widths to_json is called with (2 is the default)
Indents == {0, 2}

\* statements and blocks whose key is a quoted string: the keywords'
\* spellings, an identifier, and strings that are no identifier
KeyWords ==
    { <<"t","r","u","e">>, <<"T","r","u","e">>, <<"f","a","l","s","e">>,
      <<"F","a","l","s","e">>, <<"n","u","l","l">>, <<"N","o","n","e">>,
      <<"a">>, <<"a", SP, "b">>, <<>>, <<"1", "x">>, <<"a", BSL, "n">>,
      <<BSL, "u", "0", "0", "e", "9">> }

KeyTexts ==
    UNION {{ <<QUOTE>> \o k \o <<QUOTE, SP, "=", SP, "1">>,
             <<"b", SP, "{", NL, QUOTE>> \o k \o <<QUOTE, "=", "1", NL, "}">>,
             <<QUOTE>> \o k \o <<QUOTE, SP, "{", NL, "}">> } : k \in KeyWords}

\* string values that hold a control character, spelled with \u escapes
CtlEscapes ==
    { <<BSL, "u", "0", "0", "0", "8">>, <<BSL, "u", "0", "0", "0", "c">>,
      <<BSL, "u", "0", "0", "0", "0">>, <<BSL, "u", "0", "0", "1", "f">>,
      <<BSL, "u", "0", "0", "0", "9">>, <<BSL, "u", "0", "0", "0", "d">> }

CtlTexts ==
    UNION {{ <<"a", "=", QUOTE>> \o e \o <<QUOTE>>,
             <<"a", "=", QUOTE, "x">> \o e \o <<"y", QUOTE>>,
             <<"a", "=", "[", QUOTE>> \o e \o <<QUOTE, "]">> } : e \in CtlEscapes}

Texts ==
    DocTexts \cup ArrayTexts \cup StrTexts \cup BlockTexts \cup OddTexts \cup NumTexts
        \cup EscTexts \cup BracketTexts \cup KeyTexts
        \cup CtlTexts

(***************************************************************************)
(* The JSON values the bridge is given: a mapping at the top, below it     *)
(* literals, mappings and sequences, the empty ones included, with the     *)
(* keys in either order.                                                   *)
(***************************************************************************)
MaxJsonLen == 2     \* items of a sequence below the top level

JsonLits == {PyNone, PyBool(TRUE), PyInt(<<"1">>), PyFloat(<<"1", ".", "5">>), PyStr(<<"x">>)}

JsonLeaves == {PyNone, PyInt(<<"1">>), PyDict(<<>>), PyList(<<>>)}

JsonKeySeqs == {<<>>, << <<"a">> >>, << <<"b">> >>, << <<"a">>, <<"b">> >>, << <<"b">>, <<"a">> >>}

\* the mapping with the keys ks, in that order, and the values vs
JsonDict(ks, vs) == PyDict([i \in 1..Len(ks) |-> [k |-> ks[i], v |-> vs[i]]])

\* what the top-level mapping holds
JsonInner ==
    JsonLits \cup {PyList(l) : l \in SeqsUpTo(JsonLeaves, MaxJsonLen)}
             \cup UNION {{JsonDict(ks, vs) : vs \in [1..Len(ks) -> JsonLeaves]} : ks \in JsonKeySeqs}

(***************************************************************************)
(* The run.                                                                *)
(***************************************************************************)
CliVars == <<args, files, stdin, stdout, stderr, exit>>

NoArgs == [cmd |-> "", input |-> "", output |-> "", indent |-> 0]

\* no command line is run
CliIdle ==
    /\ args = NoArgs /\ files = [p \in Paths |-> None]
    /\ stdin = <<>> /\ stdout = <<>> /\ stderr = <<>> /\ exit = None

NotRun == [ok |-> FALSE, etype |-> "NotRun", msg |-> "", line |-> 0, col |-> 0]

Init ==
    /\ text \in Texts
    /\ pc = "start"
    /\ toks = NotRun /\ root = NotRun /\ out1 = <<>> /\ root2 = NotRun
    /\ out2 = <<>> /\ root3 = NotRun
    /\ ktoks = <<>> /\ kdata = NotRun /\ kout = NotRun /\ kdata2 = NotRun
    /\ py = PyNone /\ jnode = NotRun /\ jback = PyNone /\ kjnode = NotRun /\ kjback = PyNone
    /\ jtext = <<>>
    /\ CliIdle

RefVars == <<toks, root, out1, root2, out2, root3>>
KerVars == <<ktoks, kdata, kout, kdata2>>
JsonVars == <<py, jnode, jback, kjnode, kjback>>

\* root = Parser(text).parse()
RefParse ==
    /\ pc = "start"
    /\ toks' = LexAll(text, LexStart, <<>>)
    /\ root' = IF toks'.ok THEN parse(toks'.toks) ELSE toks'
    /\ pc' = "parsed"
    /\ UNCHANGED <<CliVars, text, jtext, out1, root2, out2, root3, KerVars, JsonVars>>

\* out = dumps_to_ker(root), the fmt command's output
RefDumps ==
    /\ pc = "parsed" /\ root.ok
    /\ out1' = dumps_to_ker(root.node)
    /\ pc' = "dumped"
    /\ UNCHANGED <<CliVars, text, jtext, toks, root, root2, out2, root3, KerVars, JsonVars>>

\* the output parsed again
RefReparse ==
    /\ pc = "dumped"
    /\ root2' = ParseText(out1)
    /\ pc' = "reparsed"
    /\ UNCHANGED <<CliVars, text, jtext, toks, root, out1, out2, root3, KerVars, JsonVars>>

RefDumps2 ==
    /\ pc = "reparsed" /\ root2.ok
    /\ out2' = dumps_to_ker(root2.node)
    /\ pc' = "dumped2"
    /\ UNCHANGED <<CliVars, text, jtext, toks, root, out1, root2, root3, KerVars, JsonVars>>

RefReparse3 ==
    /\ pc = "dumped2"
    /\ root3' = ParseText(out2)
    /\ pc' = "reparsed3"
    /\ UNCHANGED <<CliVars, text, jtext, toks, root, out1, root2, out2, KerVars, JsonVars>>

\* the reference run has ended: by an exception or after the last parse
RefEnded ==
    \/ pc = "parsed" /\ ~root.ok
    \/ pc = "reparsed" /\ ~root2.ok
    \/ pc = "reparsed3"

\* a ker Lexer driven over the text until EOF or a LexerError
KerLex ==
    /\ RefEnded
    /\ ktoks' = KerLexAll(text, LexStart, <<>>)
    /\ pc' = "klexed"
    /\ UNCHANGED <<CliVars, text, jtext, RefVars, kdata, kout, kdata2, JsonVars>>

\* data = ker.loads(text)
KerLoads ==
    /\ pc = "klexed"
    /\ kdata' = loads(text)
    /\ pc' = "kloaded"
    /\ UNCHANGED <<CliVars, text, jtext, RefVars, ktoks, kout, kdata2, JsonVars>>

\* ker.dumps(data)
KerDumps ==
    /\ pc = "kloaded" /\ kdata.ok
    /\ kout' = dumps(kdata.data)
    /\ pc' = "kdumped"
    /\ UNCHANGED <<CliVars, text, jtext, RefVars, ktoks, kdata, kdata2, JsonVars>>

\* ker.loads(ker.dumps(data))
KerLoads2 ==
    /\ pc = "kdumped" /\ kout.ok
    /\ kdata2' = loads(kout.text)
    /\ pc' = "kreloaded"
    /\ UNCHANGED <<CliVars, text, jtext, RefVars, ktoks, kdata, kout, JsonVars>>

\* the ker run has ended: by an exception or after the last load
KerEnded ==
    \/ pc = "kloaded" /\ ~kdata.ok
    \/ pc = "kdumped" /\ ~kout.ok
    \/ pc = "kreloaded"

\* to_json(root): the data of the parsed root, as the to-json command
\* takes it
RefToJson ==
    /\ KerEnded /\ root.ok
    /\ jback' = node_to_json(root.node)
    /\ pc' = "tojson"
    /\ UNCHANGED <<CliVars, text, jtext, RefVars, KerVars, py, jnode, kjnode, kjback>>

\* from_json_string on that JSON, as the from-json command takes it
RefFromJson ==
    /\ pc = "tojson"
    /\ jnode' = from_json(jback)
    /\ pc' = "fromjson"
    /\ UNCHANGED <<CliVars, text, jtext, RefVars, KerVars, py, jback, kjnode, kjback>>

\* py_to_node of ker.json_support on the same data
KerToNode ==
    /\ pc = "fromjson"
    /\ kjnode' = ker_py_to_node(jback, None)
    /\ pc' = "kernode"
    /\ UNCHANGED <<CliVars, text, jtext, RefVars, KerVars, py, jnode, jback, kjback>>

\* to_json(root, indent): the JSON text of the to-json command
RefToJsonText ==
    /\ pc = "kernode"
    /\ \E indent \in Indents : jtext' = to_json(root.node, indent)
    /\ pc' = "jsontext"
    /\ UNCHANGED <<CliVars, text, RefVars, KerVars, JsonVars>>

Next ==
    \/ RefParse \/ RefDumps \/ RefReparse \/ RefDumps2 \/ RefReparse3
    \/ KerLex \/ KerLoads \/ KerDumps \/ KerLoads2
    \/ RefToJson \/ RefFromJson \/ KerToNode \/ RefToJsonText

Spec == Init /\ [][Next]_vars

(***************************************************************************)
(* The JSON bridge's run: one value through py_to_node and node_to_json    *)
(* of ker_parser.main, then through those of ker.json_support.             *)
(***************************************************************************)
InitJson ==
    /\ \E ks \in JsonKeySeqs : \E vs \in [1..Len(ks) -> JsonInner] : py = JsonDict(ks, vs)
    /\ pc = "json"
    /\ text = <<>>
    /\ toks = NotRun /\ root = NotRun /\ out1 = <<>> /\ root2 = NotRun
    /\ out2 = <<>> /\ root3 = NotRun
    /\ ktoks = <<>> /\ kdata = NotRun /\ kout = NotRun /\ kdata2 = NotRun
    /\ jnode = NotRun /\ jback = PyNone /\ kjnode = NotRun /\ kjback = PyNone
    /\ jtext = <<>>
    /\ CliIdle

\* py_to_node(v) of ker_parser.main
PyToNode ==
    /\ pc = "json"
    /\ jnode' = py_to_node(py, None)
    /\ pc' = "jnode"
    /\ UNCHANGED <<CliVars, text, jtext, RefVars, KerVars, py, jback, kjnode, kjback>>

\* node_to_json of ker_parser.main on that node
NodeToJson ==
    /\ pc = "jnode"
    /\ jback' = node_to_json(jnode)
    /\ pc' = "jback"
    /\ UNCHANGED <<CliVars, text, jtext, RefVars, KerVars, py, jnode, kjnode, kjback>>

\* py_to_node(v) of ker.json_support
KerPyToNode ==
    /\ pc = "jback"
    /\ kjnode' = ker_py_to_node(py, None)
    /\ pc' = "kjnode"
    /\ UNCHANGED <<CliVars, text, jtext, RefVars, KerVars, py, jnode, jback, kjback>>

\* node_to_json of ker.json_support on that node
KerNodeToJson ==
    /\ pc = "kjnode"
    /\ kjback' = ker_node_to_json(kjnode)
    /\ pc' = "jdone"
    /\ UNCHANGED <<CliVars, text, jtext, RefVars, KerVars, py, jnode, jback, kjnode>>

NextJson == PyToNode \/ NodeToJson \/ KerPyToNode \/ KerNodeToJson

SpecJson == InitJson /\ [][NextJson]_vars

(***************************************************************************)
(* The conversion of a decoded JSON value of any top-level shape: the      *)
(* reference from_json_string, then ker.dumps.                             *)
(***************************************************************************)
InitTop ==
    /\ py \in JsonInner
    /\ pc = "top"
    /\ text = <<>>
    /\ toks = NotRun /\ root = NotRun /\ out1 = <<>> /\ root2 = NotRun
    /\ out2 = <<>> /\ root3 = NotRun
    /\ ktoks = <<>> /\ kdata = NotRun /\ kout = NotRun /\ kdata2 = NotRun
    /\ jnode = NotRun /\ jback = PyNone /\ kjnode = NotRun /\ kjback = PyNone
    /\ jtext = <<>>
    /\ CliIdle

\* from_json_string on the text of py
FromJsonString ==
    /\ pc = "top"
    /\ jnode' = from_json(py)
    /\ pc' = "topnode"
    /\ UNCHANGED <<CliVars, text, jtext, RefVars, KerVars, py, jback, kjnode, kjback>>

\* ker.dumps(py)
KerDumpsTop ==
    /\ pc = "topnode"
    /\ kout' = dumps(py)
    /\ pc' = "topdone"
    /\ UNCHANGED <<CliVars, text, jtext, RefVars, ktoks, kdata, kdata2, JsonVars>>

NextTop == FromJsonString \/ KerDumpsTop

SpecTop == InitTop /\ [][NextTop]_vars

(***************************************************************************)
(* A run of the command line: main(argv) for fmt or to-json, with the      *)
(* input and the output each a path or "-".                                *)
(***************************************************************************)
CliTexts ==
    { <<"a", SP, "=", SP, "1">>,
      <<"b", "=", "[", "1", ",", "{", "}", "]">>,
      <<"a", SP, "=">> }

InitCli ==
    /\ pc = "cli"
    /\ \E cmd \in {"fmt", "to-json"}, input \in {"-", "in.ker", "gone.ker"},
          output \in {"-", "out.json"} :
          \E indent \in (IF cmd = "to-json" THEN Indents ELSE {0}) :
             args = [cmd |-> cmd, input |-> input, output |-> output, indent |-> indent]
    /\ stdin \in CliTexts
    /\ \E src \in CliTexts, dash \in {None} \cup {Some(t) : t \in CliTexts},
          old \in {None, Some(<<"o", "l", "d">>)} :
          files = [p \in Paths |-> CASE p = "in.ker" -> Some(src)
                                     [] p = "-" -> dash
                                     [] p = "out.json" -> old
                                     [] OTHER -> None]
    /\ stdout = <<>> /\ stderr = <<>> /\ exit = None
    /\ text = <<>>
    /\ toks = NotRun /\ root = NotRun /\ out1 = <<>> /\ root2 = NotRun
    /\ out2 = <<>> /\ root3 = NotRun
    /\ ktoks = <<>> /\ kdata = NotRun /\ kout = NotRun /\ kdata2 = NotRun
    /\ py = PyNone /\ jnode = NotRun /\ jback = PyNone /\ kjnode = NotRun /\ kjback = PyNone
    /\ jtext = <<>>

\* sys.exit(status) from an except clause of main
CliFail(e) ==
    /\ stderr' = Append(stderr, Message(e, args.input))
    /\ exit' = Some(ExitStatus(e))
    /\ pc' = "clidone"

\* write_stdout_or_file(path, text)
write_stdout_or_file(path, t) ==
    IF path = "-" THEN stdout' = stdout \o t /\ files' = files
    ELSE files' = [files EXCEPT ![path] = Some(t)] /\ stdout' = stdout

\* text = read_file_or_stdin(args.input), the first statement of both
\* commands
CliRead ==
    /\ pc = "cli"
    /\ stdin' = IF args.input = "-" THEN <<>> ELSE stdin
    /\ LET Read(r) ==
               IF r.ok THEN text' = r.text /\ pc' = "cliread" /\ UNCHANGED <<stderr, exit>>
               ELSE text' = text /\ CliFail(r)
       IN  Read(read_file_or_stdin(files, stdin, args.input))
    /\ UNCHANGED <<args, files, stdout, jtext, RefVars, KerVars, JsonVars>>

\* fmt: out = dumps(loads(text)); write_stdout_or_file(args.output, out)
CliFmt ==
    /\ pc = "cliread" /\ args.cmd = "fmt"
    /\ LET Done(r) ==
               IF r.ok
               THEN /\ write_stdout_or_file(args.output, r.text)
                    /\ exit' = Some(0) /\ pc' = "clidone" /\ stderr' = stderr
               ELSE CliFail(r) /\ UNCHANGED <<files, stdout>>
       IN  Done(FmtText(text))
    /\ UNCHANGED <<args, stdin, text, jtext, RefVars, KerVars, JsonVars>>

\* to-json: ker_to_json(args.input, args.output, indent=args.indent)
CliToJson ==
    /\ pc = "cliread" /\ args.cmd = "to-json"
    /\ LET Done(r) ==
               IF r.ok
               THEN /\ files' = r.files
                    /\ exit' = Some(0) /\ pc' = "clidone" /\ stderr' = stderr
               ELSE CliFail(r) /\ files' = files
       IN  Done(ker_to_json(files, args.input, args.output, args.indent))
    /\ UNCHANGED <<args, stdin, stdout, text, jtext, RefVars, KerVars, JsonVars>>

NextCli == CliRead \/ CliFmt \/ CliToJson

SpecCli == InitCli /\ [][NextCli]_vars

(***************************************************************************)
(* What the checked statements are written with.                           *)
(***************************************************************************)
\* an AST without its source positions
RECURSIVE StripPos(_)
StripPos(n) ==
    [key |-> n.key, value |-> n.value,
     children |-> IF n.children = None THEN None
                  ELSE Some([i \in 1..Len(n.children[1]) |->
                          [k |-> n.children[1][i].k, v |-> StripPos(n.children[1][i].v)]]),
     elements |-> IF n.elements = None THEN None
                  ELSE Some([i \in 1..Len(n.elements[1]) |-> StripPos(n.elements[1][i])]),
     comments_before |-> n.comments_before, comment_inline |-> n.comment_inline]

\* the [k, v] entries of every object at or below n
RECURSIVE Entries(_)
Entries(n) ==
    IF n.children # None
    THEN UNION {{n.children[1][i]} \cup Entries(n.children[1][i].v) : i \in 1..Len(n.children[1])}
    ELSE IF n.elements # None
    THEN UNION {Entries(n.elements[1][i]) : i \in 1..Len(n.elements[1])}
    ELSE {}

\* every node at or below n
RECURSIVE Nodes(_)
Nodes(n) ==
    {n} \cup (IF n.children # None
              THEN UNION {Nodes(n.children[1][i].v) : i \in 1..Len(n.children[1])}
              ELSE IF n.elements # None
              THEN UNION {Nodes(n.elements[1][i]) : i \in 1..Len(n.elements[1])}
              ELSE {})

IsLiteralNode(n) == n.children = None /\ n.elements = None

\* the index of the token at a source position
TokAt(T, at) == CHOOSE i \in 1..Len(T) : T[i].line = at[1] /\ T[i].col = at[2]

\* token i is a comment with nothing before it on its line
CommentLine(T, i) == T[i].type = "COMMENT" /\ (i = 1 \/ T[i - 1].line < T[i].line)

\* the comment lines directly before token i, in source order
RECURSIVE LeadingRun(_, _)
LeadingRun(T, i) ==
    IF i > 1 /\ CommentLine(T, i - 1)
    THEN Append(LeadingRun(T, i - 1), T[i - 1].value)
    ELSE <<>>

\* the comment on the key's line directly after the value of the statement
\* "key = literal" whose key is token i
InlineAfter(T, i) ==
    IF i + 3 <= Len(T) /\ T[i + 3].type = "COMMENT" /\ T[i + 3].line = T[i].line
    THEN Some(T[i + 3].value) ELSE None

\* token i is the key of a statement
IsKeyTok(T, i) ==
    /\ T[i].type \in {"IDENT", "STRING"}
    /\ i < Len(T)
    /\ T[i + 1].type \in {"EQUALS", "LBRACE", "COLON"}

\* the tokens with every key made distinct: the key followed by its index
Unique(T) ==
    [i \in 1..Len(T) |->
        IF IsKeyTok(T, i) THEN [T[i] EXCEPT !.value = Append(T[i].value, ToString(i))]
        ELSE T[i]]

OrigKey(k) == SubSeq(k, 1, Len(k) - 1)

SetMax(S) == CHOOSE x \in S : \A y \in S : y <= x
SetMin(S) == CHOOSE x \in S : \A y \in S : x <= y

\* d is the data u with, in every object, each key mapped to the value of
\* its last assignment; u is parsed from the distinct keys
RECURSIVE LastWins(_, _)
LastWins(d, u) ==
    IF u.t = "dict" THEN
        /\ d.t = "dict"
        /\ {d.v[i].k : i \in 1..Len(d.v)} = {OrigKey(u.v[j].k) : j \in 1..Len(u.v)}
        /\ \A i, j \in 1..Len(d.v) : d.v[i].k = d.v[j].k => i = j
        /\ \A i \in 1..Len(d.v) :
              LastWins(d.v[i].v,
                       u.v[SetMax({j \in 1..Len(u.v) : OrigKey(u.v[j].k) = d.v[i].k})].v)
    ELSE IF u.t = "list" THEN
        /\ d.t = "list"
        /\ Len(d.v) = Len(u.v)
        /\ \A i \in 1..Len(d.v) : LastWins(d.v[i], u.v[i])
    ELSE d = u

\* token j ends an array element, comments after it skipped
RECURSIVE ElemEnds(_, _)
ElemEnds(T, j) ==
    \/ T[j].type \in {"STRING", "NUMBER", "TRUE", "FALSE", "NULL", "RBRACKET", "RBRACE"}
    \/ T[j].type = "COMMENT" /\ j > 1 /\ ElemEnds(T, j - 1)

\* the commas that stand between an element and the closing bracket
TrailingCommas(T) ==
    {i \in 2..(Len(T) - 1) :
        T[i].type = "COMMA" /\ T[i + 1].type = "RBRACKET" /\ ElemEnds(T, i - 1)}

Remove(T, i) == SubSeq(T, 1, i - 1) \o SubSeq(T, i + 1, Len(T))

\* The index of the opening quote of the string the text ends in, 0 when it
\* ends outside a string.  q is 0 outside, -1 in a comment, else the index
\* of the opening quote; in a string a backslash escapes the next character.
RECURSIVE OpenQuote(_, _, _)
OpenQuote(s, i, q) ==
    IF i > Len(s) THEN (IF q > 0 THEN q ELSE 0)
    ELSE IF q = 0 THEN
        OpenQuote(s, i + 1, IF s[i] = QUOTE THEN i ELSE IF s[i] = "#" THEN -1 ELSE 0)
    ELSE IF q = -1 THEN OpenQuote(s, i + 1, IF s[i] = NL THEN 0 ELSE -1)
    ELSE IF s[i] = BSL THEN (IF i + 1 > Len(s) THEN q ELSE OpenQuote(s, i + 2, q))
    ELSE OpenQuote(s, i + 1, IF s[i] = QUOTE THEN 0 ELSE q)

\* In the unterminated string scanned from i: the index at which an escape
\* is cut short, 0 if none is.  That is the end of the text, Len(s) + 1,
\* directly after a backslash, and after \u the first of the next four
\* places that holds no hexadecimal digit.
RECURSIVE CutEscape(_, _)
CutEscape(s, i) ==
    IF i > Len(s) THEN 0
    ELSE IF s[i] # BSL THEN CutEscape(s, i + 1)
    ELSE IF i + 1 > Len(s) THEN Len(s) + 1
    ELSE IF s[i + 1] # "u" THEN CutEscape(s, i + 2)
    ELSE IF \E k \in 1..4 : i + 1 + k > Len(s) \/ s[i + 1 + k] \notin HexChars
    THEN i + 1 + SetMin({k \in 1..4 : i + 1 + k > Len(s) \/ s[i + 1 + k] \notin HexChars})
    ELSE CutEscape(s, i + 6)

\* the (line, column) of index i of the text, counted from 1
LineCol(s, i) ==
    <<1 + Cardinality({j \in 1..(i - 1) : s[j] = NL}),
      i - SetMax({0} \cup {j \in 1..(i - 1) : s[j] = NL})>>

\* the reference lexer gets as far as index q of the text
RefReaches(s, q) == LexAll(SubSeq(s, 1, q - 1), LexStart, <<>>).ok

\* the ker lexer gets as far as index q of the text
KerReaches(s, q) == ~KerLexRaised(KerLexAll(SubSeq(s, 1, q - 1), LexStart, <<>>))

\* the lexing ended in a LexerError at the position of index i
RefErrorAt(s, i) ==
    /\ ~toks.ok /\ toks.etype = "LexerError"
    /\ <<toks.line, toks.col>> = LineCol(s, i)

KerErrorAt(s, i) ==
    /\ KerLexRaised(ktoks)
    /\ <<ktoks[Len(ktoks)].line, ktoks[Len(ktoks)].col>> = LineCol(s, i)

C2_FormatIdempotent ==
    /\ pc = "reparsed" => root2.ok
    /\ pc = "dumped2" => out2 = out1

\* C3: for every text the reference parser accepts, the AST after one
\* pass of dumps_to_ker and parse equals the AST after two passes, source
\* positions left out.
C3_AstFixedPoint ==
    /\ pc = "reparsed" => root2.ok
    /\ pc = "reparsed3" => root3.ok /\ StripPos(root3.node) = StripPos(root2.node)

\* C4: for every JSON value with a mapping at the top, node_to_json of
\* py_to_node of the value is the value, key order kept, in ker_parser.main
\* and in ker.json_support.
C4_JsonBridge == pc = "jdone" => jback = py /\ kjback = py

\* C4, its case reached: a value with two keys, an empty mapping and a
\* sequence holding an empty sequence has gone through both bridges
C4_Witness ==
    /\ pc = "jdone"
    /\ Len(py.v) = 2
    /\ py.v[1].k = <<"b">>
    /\ py.v[1].v = PyDict(<<>>)
    /\ py.v[2].v = PyList(<<PyList(<<>>), PyNone>>)

\* C5: for every text ker.loads accepts, ker.dumps of the data gives a text
\* that ker.loads accepts and loads to the same data.
C5_KerRoundTrip ==
    /\ pc = "kdumped" => kout.ok
    /\ pc = "kreloaded" => kdata2.ok /\ kdata2.data = kdata.data

\* C6: in the reference parser's AST, every statement with a literal value
\* has as comments_before exactly the comment lines directly before it, in
\* source order, and as comment_inline the comment on its key's line
\* directly after its value, which is in no node's comments_before.
C6_CommentAssociation ==
    (pc = "parsed" /\ root.ok) =>
        \A e \in Entries(root.node) :
            IsLiteralNode(e.v) =>
                /\ e.v.comments_before = LeadingRun(toks.toks, TokAt(toks.toks, e.v.src_pos[1]))
                /\ e.v.comment_inline = InlineAfter(toks.toks, TokAt(toks.toks, e.v.src_pos[1]))
                /\ \A n \in Nodes(root.node) :
                      \A j \in 1..Len(n.comments_before) :
                          Some(n.comments_before[j]) # e.v.comment_inline

\* C7: in both parsers a text that assigns a key more than once in one
\* object is accepted exactly when it is accepted with its keys made
\* distinct, and its data maps every key to the value of the key's last
\* assignment.
C7_LastWins ==
    pc = "kloaded" =>
        LET Ref(u) ==
                /\ root.ok = u.ok
                /\ root.ok => LastWins(node_to_json(root.node), node_to_json(u.node))
            Ker(u) ==
                /\ kdata.ok = u.ok
                /\ kdata.ok => LastWins(kdata.data, ker_node_to_json(u.node))
        IN  /\ toks.ok => Ref(parse(Unique(toks.toks)))
            /\ Ker(KerParseToks(Unique(ktoks)))

\* the top-level object parsed from T with its keys made distinct has more
\* entries than d: a key is assigned twice
TopDuplicate(d, u) == u.ok /\ Len(u.node.children[1]) > Len(d.v)

\* C7, its case reached: both parsers have accepted a text that assigns a
\* top-level key more than once
C7_Witness ==
    /\ pc = "kloaded" /\ root.ok /\ kdata.ok
    /\ TopDuplicate(node_to_json(root.node), parse(Unique(toks.toks)))
    /\ TopDuplicate(kdata.data, KerParseToks(Unique(ktoks)))

\* C8: dumps_to_ker writes the array of a statement on one line exactly
\* when every element is a literal (string, number, boolean or null) and
\* there are at most 5 elements.
C8_InlineRule ==
    (pc = "parsed" /\ root.ok) =>
        \A e \in Entries(root.node) :
            e.v.elements # None =>
                ((Len(node_lines(e.v, Some(e.k), 0)) = Len(e.v.comments_before) + 1)
                 <=> (/\ \A i \in 1..Len(e.v.elements[1]) : IsLiteralNode(e.v.elements[1][i])
                      /\ Len(e.v.elements[1]) <= 5))

\* C9: in both parsers, a text with a comma between the last element of an
\* array and the closing bracket parses to what it parses to without that
\* comma.
C9_TrailingComma ==
    pc = "kloaded" =>
        LET Ker(r) ==
                /\ r.ok = kdata.ok
                /\ r.ok => ker_node_to_json(r.node) = kdata.data
        IN  /\ toks.ok =>
                \A i \in TrailingCommas(toks.toks) : parse(Remove(toks.toks, i)) = root
            /\ \A i \in TrailingCommas(ktoks) : Ker(KerParseToks(Remove(ktoks, i)))

\* C9, its case reached: both parsers have accepted a text with a trailing
\* comma in an array
C9_Witness ==
    /\ pc = "kloaded" /\ root.ok /\ kdata.ok
    /\ TrailingCommas(toks.toks) # {}
    /\ TrailingCommas(ktoks) # {}

\* C10 as stated: whenever the text ends in a string that no unescaped
\* quote closes, a backslash as the last character included, both lexers
\* raise a LexerError at the position of the string's opening quote.
C10_AtOpeningQuote ==
    pc = "klexed" =>
        LET Open(q) ==
                /\ (q # 0 /\ RefReaches(text, q)) => RefErrorAt(text, q)
                /\ (q # 0 /\ KerReaches(text, q)) => KerErrorAt(text, q)
        IN  Open(OpenQuote(text, 1, 0))

\* C10 as amended: whenever the text ends in a string that no unescaped
\* quote closes, both lexers raise a LexerError; the ker lexer's position is
\* the string's opening quote; the reference lexer's is the opening quote
\* unless an escape in the string is cut short, and then it is the place
\* where the escape fails: the end of the text directly after a backslash,
\* and after \u the first of the next four places without a hexadecimal
\* digit.
C10_UnterminatedPosition ==
    pc = "klexed" =>
        LET Open(q, cut) ==
                /\ (q # 0 /\ RefReaches(text, q)) =>
                      RefErrorAt(text, IF cut = 0 THEN q ELSE cut)
                /\ (q # 0 /\ KerReaches(text, q)) => KerErrorAt(text, q)
            From(q) == Open(q, IF q = 0 THEN 0 ELSE CutEscape(text, q + 1))
        IN  From(OpenQuote(text, 1, 0))

\* a string the lexers reach is open at the end of the text, its opening
\* quote at q, and the text ends directly after a backslash
EndsInBackslash(q) ==
    /\ q # 0 /\ RefReaches(text, q) /\ KerReaches(text, q)
    /\ CutEscape(text, q + 1) = Len(text) + 1
    /\ text[Len(text)] = BSL

\* C10, its case reached: both lexers have been run over a text that ends
\* directly after a backslash in an open string on the third line
C10_Witness ==
    /\ pc = "klexed"
    /\ EndsInBackslash(OpenQuote(text, 1, 0))
    /\ LineCol(text, OpenQuote(text, 1, 0))[1] = 3

\* the indices of the opening braces and brackets of T that are still open
\* after token i - 1, the innermost last
RECURSIVE OpenStack(_, _, _)
OpenStack(T, i, st) ==
    IF i > Len(T) THEN st
    ELSE IF T[i].type \in {"LBRACE", "LBRACKET"} THEN OpenStack(T, i + 1, Append(st, i))
    ELSE IF T[i].type \in {"RBRACE", "RBRACKET"} /\ st # <<>>
    THEN OpenStack(T, i + 1, SubSeq(st, 1, Len(st) - 1))
    ELSE OpenStack(T, i + 1, st)

\* T with the closers of the open braces and brackets st put before EOF
Closed(T, st) ==
    LET eof == T[Len(T)]
        Closer(i) == IF T[i].type = "LBRACE" THEN Tok("RBRACE", <<"}">>, eof.line, eof.col)
                     ELSE Tok("RBRACKET", <<"]">>, eof.line, eof.col)
    IN  SubSeq(T, 1, Len(T) - 1) \o [k \in 1..Len(st) |-> Closer(st[Len(st) + 1 - k])]
            \o <<eof>>

\* T ends inside a block: its innermost open bracket is a brace, and T is
\* accepted once the closers are supplied
EndsInBlock(T, st) ==
    /\ st # <<>>
    /\ T[st[Len(st)]].type = "LBRACE"
    /\ parse(Closed(T, st)).ok

\* C11: whenever the reference parser reaches the end of the input inside
\* a block, it raises a ParserError whose position is the (line, column)
\* of the block's opening brace.
C11_UnclosedAtBrace ==
    (pc = "parsed" /\ toks.ok) =>
        LET Chk(T, st) ==
                EndsInBlock(T, st) =>
                    /\ ~root.ok /\ root.etype = "ParserError"
                    /\ <<root.line, root.col>> = <<T[st[Len(st)]].line, T[st[Len(st)]].col>>
        IN  Chk(toks.toks, OpenStack(toks.toks, 1, <<>>))

\* C12: a JSON value whose top level is no mapping is rejected with a
\* ValueError and no root node, by from_json_string and by ker.dumps.
C12_TopLevelRejected ==
    (pc = "topdone" /\ py.t # "dict") =>
        /\ ~jnode.ok /\ jnode.etype = "ValueError"
        /\ ~kout.ok /\ kout.etype = "ValueError"

\* how many comment tokens of T hold the comment c
CommentCount(T, c) == Cardinality({i \in 1..Len(T) : T[i].type = "COMMENT" /\ T[i].value = c})

CommentValues(T) == {T[i].value : i \in {j \in 1..Len(T) : T[j].type = "COMMENT"}}

\* C13: for every text the reference parser accepts, every comment of the
\* text is in the text dumps_to_ker gives for its AST as many times as it
\* is in the source: none is dropped and none is repeated.
C13_CommentsKept ==
    pc = "dumped" =>
        LET Same(T, U) ==
                /\ U.ok
                /\ \A c \in CommentValues(T) \cup CommentValues(U.toks) :
                      CommentCount(U.toks, c) = CommentCount(T, c)
        IN  Same(toks.toks, LexAll(out1, LexStart, <<>>))

IsPrefix(a, b) == Len(a) <= Len(b) /\ SubSeq(b, 1, Len(a)) = a

\* the first child statement or first element of a block or array, if any
FirstOf(n) ==
    IF n.children # None
    THEN (IF n.children[1] = <<>> THEN None ELSE Some(n.children[1][1].v))
    ELSE (IF n.elements[1] = <<>> THEN None ELSE Some(n.elements[1][1]))

\* the comments among the tokens i+1 .. j-1, in source order
RECURSIVE CommentsBetween(_, _, _)
CommentsBetween(T, i, j) ==
    IF i + 1 >= j THEN <<>>
    ELSE (IF T[i + 1].type = "COMMENT" THEN <<T[i + 1].value>> ELSE <<>>)
            \o CommentsBetween(T, i + 1, j)

\* between the key at token i and the token j there is nothing but the
\* opening of the key's block or array and comments
OpensAt(T, i, j) ==
    /\ i < j
    /\ \A k \in (i + 1)..(j - 1) :
          T[k].type \in {"EQUALS", "COLON", "LBRACE", "LBRACKET", "COMMENT"}
    /\ Cardinality({k \in (i + 1)..(j - 1) : T[k].type \in {"LBRACE", "LBRACKET"}}) = 1

\* C14: in the reference parser, the comment lines directly before a
\* statement whose value is a block or an array are in comments_before of
\* the node stored under the statement's key, and the first child
\* statement or first element has only the comments inside the block or
\* array before it.
C14_LeadingOfContainer ==
    (pc = "parsed" /\ root.ok) =>
        LET First(T, i, f, j) ==
                OpensAt(T, i, j) => f.comments_before = CommentsBetween(T, i, j)
            Chk(T, n, i, run) ==
                run # <<>> =>
                    /\ IsPrefix(run, n.comments_before)
                    /\ FirstOf(n) # None =>
                          First(T, i, FirstOf(n)[1], TokAt(T, FirstOf(n)[1].src_pos[1]))
            At(T, n, i) == Chk(T, n, i, LeadingRun(T, i))
        IN  \A e \in Entries(root.node) :
                ~IsLiteralNode(e.v) => At(toks.toks, e.v, TokAt(toks.toks, e.v.src_pos[1]))

\* what the statement or element n is to be written as: each comment of
\* comments_before once, on a line of its own at n's indentation, and
\* then n's own lines
OnceThen(n, key, level) ==
    CommentLines(Indent(level), n.comments_before)
        \o node_lines([n EXCEPT !.comments_before = <<>>], key, level)

\* the lines node_lines writes for n hold, between n's opening line and
\* its closing line, every child statement and every element written so,
\* and so at any depth
RECURSIVE EmitsOnce(_, _, _)
EmitsOnce(n, key, level) ==
    LET Inner(L, k0, blocks) ==
            L = SubSeq(L, 1, k0 + 1) \o Concat(blocks) \o <<L[Len(L)]>>
        Obj(d) ==
            /\ Inner(node_lines(n, key, level), Len(n.comments_before),
                     [i \in 1..Len(d) |-> OnceThen(d[i].v, Some(d[i].k), level + 1)])
            /\ \A i \in 1..Len(d) : EmitsOnce(d[i].v, Some(d[i].k), level + 1)
        Arr(es) ==
            /\ (\E i \in 1..Len(es) : es[i].comments_before # <<>>) =>
                  Inner(node_lines(n, key, level), Len(n.comments_before),
                        [i \in 1..Len(es) |-> OnceThen(es[i], None, level + 1)])
            /\ \A i \in 1..Len(es) : EmitsOnce(es[i], None, level + 1)
    IN  IF n.children # None THEN Obj(n.children[1])
        ELSE IF n.elements # None THEN Arr(n.elements[1])
        ELSE TRUE

\* C15: dumps_to_ker writes each entry of the comments_before of every
\* node, object child or array element at any depth, exactly once, as a
\* "# comment" line of its own directly before the node's first line and
\* at the node's indentation.
C15_CommentsOnce ==
    pc = "dumped" =>
        LET Top(d) ==
                /\ out1 = Join(Concat([i \in 1..Len(d) |-> OnceThen(d[i].v, Some(d[i].k), 0)]),
                               <<NL>>)
                /\ \A i \in 1..Len(d) : EmitsOnce(d[i].v, Some(d[i].k), 0)
        IN  Top(root.node.children[1])

\* the character at index i of the text begins a token or is skipped:
\* ASCII letter, digit or underscore, whitespace, #, quote, a minus sign
\* before a digit, punctuation
BeginsToken(s, i) ==
    \/ s[i] \in WordChars \cup Blank \cup {NL, "#", QUOTE} \cup Punct
    \/ s[i] = "-" /\ i < Len(s) /\ s[i + 1] \in AsciiDigits

\* the lexer is at index i of the text between two tokens: what is before
\* i is tokens, the last of them no comment and ended by whitespace, by
\* punctuation or by a closing quote
BetweenTokens(s, i) ==
    LET Whole(r) == r.ok /\ (Len(r.toks) = 1 \/ r.toks[Len(r.toks) - 1].type # "COMMENT")
    IN  /\ i = 1 \/ s[i - 1] \in Blank \cup {NL, QUOTE} \cup Punct
        /\ Whole(LexAll(SubSeq(s, 1, i - 1), LexStart, <<>>))

\* C16: the token loop of Parser.__init__ ends on every text, in the token
\* list or in a LexerError, every call of get_next_token consuming a
\* character, returning EOF or raising; and where the lexer comes between
\* two tokens to a character that begins no token, it raises a LexerError
\* at that character.
C16_LexerTerminates ==
    pc = "parsed" =>
        /\ toks.ok \/ toks.etype = "LexerError"
        /\ \A i \in 1..Len(text) :
              (~BeginsToken(text, i) /\ BetweenTokens(text, i)) => RefErrorAt(text, i)

\* the index after the ASCII digits that begin at index i
RECURSIVE SkipDigits(_, _)
SkipDigits(s, i) == IF i <= Len(s) /\ s[i] \in AsciiDigits THEN SkipDigits(s, i + 1) ELSE i

\* The index after the number -?(0|[1-9][0-9]*)(.[0-9]+)?([eE][+-]?[0-9]+)?
\* spelled from index i; 0 where the spelling is malformed: no digit, a
\* leading zero before another digit, a "." or an exponent marker with no
\* digit after it.
NumEnd(s, i) ==
    LET ExpDigits(d) ==
            IF d > Len(s) \/ s[d] \notin AsciiDigits THEN 0 ELSE SkipDigits(s, d)
        Exp(c) ==
            IF c <= Len(s) /\ s[c] \in {"e", "E"}
            THEN ExpDigits(IF c + 1 <= Len(s) /\ s[c + 1] \in {"+", "-"} THEN c + 2 ELSE c + 1)
            ELSE c
        Frac(b) ==
            IF b <= Len(s) /\ s[b] = "."
            THEN (IF b + 1 > Len(s) \/ s[b + 1] \notin AsciiDigits THEN 0
                  ELSE Exp(SkipDigits(s, b + 1)))
            ELSE Exp(b)
        Whole(a, b) == IF b = a \/ (s[a] = "0" /\ b > a + 1) THEN 0 ELSE Frac(b)
        Start(a) == Whole(a, SkipDigits(s, a))
    IN  Start(IF i <= Len(s) /\ s[i] = "-" THEN i + 1 ELSE i)

\* a number begins at index i of the text: a digit, or a minus sign and a digit
NumberAt(s, i) ==
    \/ s[i] \in AsciiDigits
    \/ s[i] = "-" /\ i < Len(s) /\ s[i + 1] \in AsciiDigits

\* C17: every NUMBER token of the reference lexer is spelled
\* -?(0|[1-9][0-9]*)(.[0-9]+)?([eE][+-]?[0-9]+)?, and a number with a "."
\* or an exponent marker that no digit follows, or with a leading zero
\* before another digit, raises a LexerError.
C17_NumberTokens ==
    pc = "parsed" =>
        /\ toks.ok =>
              \A k \in 1..Len(toks.toks) :
                  toks.toks[k].type = "NUMBER" =>
                      NumEnd(toks.toks[k].value, 1) = Len(toks.toks[k].value) + 1
        /\ \A i \in 1..Len(text) :
              (NumberAt(text, i) /\ BetweenTokens(text, i) /\ NumEnd(text, i) = 0) =>
                  (~toks.ok /\ toks.etype = "LexerError")

\* the statement of C17 kept to the texts whose digits are all ASCII digits
C17_AsciiOnly == (\A i \in 1..Len(text) : text[i] # "<arabic-3>") => C17_NumberTokens

\* What the string whose opening quote is at index i - 1 of the text is to
\* decode to, as code points, read from index i: \n \t \r \" \\ give
\* newline, tab, carriage return, quote and backslash, \u and four
\* hexadecimal digits the code point they spell, \u and fewer an error,
\* a backslash and any other character those two characters.  res is
\* "open" where the text ends before the closing quote, at index end.
RECURSIVE Decode(_, _, _)
Decode(s, i, acc) ==
    IF i > Len(s) THEN [res |-> "open", v |-> acc, end |-> i]
    ELSE IF s[i] = QUOTE THEN [res |-> "value", v |-> acc, end |-> i]
    ELSE IF s[i] # BSL THEN Decode(s, i + 1, Append(acc, OrdAny(s[i])))
    ELSE IF i + 1 > Len(s) THEN [res |-> "open", v |-> acc, end |-> i + 1]
    ELSE IF s[i + 1] = "n" THEN Decode(s, i + 2, Append(acc, 10))
    ELSE IF s[i + 1] = "t" THEN Decode(s, i + 2, Append(acc, 9))
    ELSE IF s[i + 1] = "r" THEN Decode(s, i + 2, Append(acc, 13))
    ELSE IF s[i + 1] = QUOTE THEN Decode(s, i + 2, Append(acc, 34))
    ELSE IF s[i + 1] = BSL THEN Decode(s, i + 2, Append(acc, 92))
    ELSE IF s[i + 1] = "u" THEN
        IF \A k \in 1..4 : i + 1 + k <= Len(s) /\ s[i + 1 + k] \in HexChars
        THEN Decode(s, i + 6,
                 Append(acc, 4096 * HexDigit(s[i + 2]) + 256 * HexDigit(s[i + 3])
                             + 16 * HexDigit(s[i + 4]) + HexDigit(s[i + 5])))
        ELSE [res |-> "error", v |-> acc, end |-> i + 1]
    ELSE Decode(s, i + 2, acc \o <<92, OrdAny(s[i + 1])>>)

\* the code points of a string value
CodePoints(cs) == [k \in 1..Len(cs) |-> OrdAny(cs[k])]

\* C18: a string of the reference lexer decodes \n \t \r \" \\ to
\* newline, tab, carriage return, quote and backslash, \u with four
\* hexadecimal digits to that code point, raises a LexerError on \u with
\* fewer, and keeps a backslash before any other character together with
\* that character, with no error.
C18_EscapeDecoding ==
    pc = "parsed" =>
        LET Value(i, d) ==
                /\ toks.ok =>
                      \E k \in 1..Len(toks.toks) :
                          /\ <<toks.toks[k].line, toks.toks[k].col>> = LineCol(text, i)
                          /\ toks.toks[k].type = "STRING"
                          /\ CodePoints(toks.toks[k].value) = d.v
                /\ ~toks.ok => \A j \in i..d.end : <<toks.line, toks.col>> # LineCol(text, j)
            Chk(i, d) ==
                /\ d.res = "error" => (~toks.ok /\ toks.etype = "LexerError")
                /\ d.res = "value" => Value(i, d)
        IN  \A i \in 1..Len(text) :
                (text[i] = QUOTE /\ BetweenTokens(text, i)) => Chk(i, Decode(text, i + 1, <<>>))

\* C18, its case reached: the text a="\u0044" has been lexed and parsed,
\* its value the one character D
C18_Witness ==
    /\ pc = "parsed" /\ root.ok
    /\ text = <<"a", "=", QUOTE, BSL, "u", "0", "0", "4", "4", QUOTE>>
    /\ root.node.children[1][1].v.value = PyStr(<<"D">>)

\* a node is an object, an array or a literal and nothing between
Shaped(n) ==
    /\ ~(n.children # None /\ n.elements # None)
    /\ (n.children # None \/ n.elements # None) => n.value = PyNone

\* a root: an object, every node at or below it of one shape
ShapedRoot(n) == n.children # None /\ \A m \in Nodes(n) : Shaped(m)

\* C19: in the root both parsers return, in the root from_json_string
\* builds and in the node py_to_node builds, every node has at most one of
\* children and elements, and a value of None when it has one of them;
\* a root has children.
C19_NodeShape ==
    LET Ker(r) == r.ok => ShapedRoot(r.node)
    IN  /\ (pc = "parsed" /\ root.ok) => ShapedRoot(root.node)
        /\ pc = "kloaded" => Ker(KerParseToks(ktoks))
        /\ (pc = "fromjson" /\ jnode.ok) => ShapedRoot(jnode.node)
        /\ pc = "kernode" => ShapedRoot(kjnode)

\* C19, its case reached: both parsers, from_json_string and py_to_node
\* have built the tree of a text with an object inside an array
C19_Witness ==
    /\ pc = "kernode" /\ kdata.ok /\ jnode.ok
    /\ \E n \in Nodes(kjnode) :
          n.elements # None /\ n.elements[1] # <<>> /\ n.elements[1][1].children # None
    /\ \E n \in Nodes(jnode.node) :
          n.elements # None /\ n.elements[1] # <<>> /\ n.elements[1][1].children # None

\* the keys ks without the repetitions of a key after its first occurrence
RECURSIVE FirstSeen(_)
FirstSeen(ks) ==
    IF ks = <<>> THEN <<>>
    ELSE LET Last(front, k) ==
                 IF \E i \in 1..Len(ks) - 1 : ks[i] = k THEN front ELSE Append(front, k)
         IN  Last(FirstSeen(SubSeq(ks, 1, Len(ks) - 1)), ks[Len(ks)])

\* d is the data u with, in every object, the keys in the order of their
\* first assignment, each with the data of its last assignment; u is
\* parsed from the distinct keys
RECURSIVE OrderKept(_, _)
OrderKept(d, u) ==
    IF u.t = "dict" THEN
        /\ d.t = "dict"
        /\ [i \in 1..Len(d.v) |-> d.v[i].k] = FirstSeen([j \in 1..Len(u.v) |-> OrigKey(u.v[j].k)])
        /\ \A i \in 1..Len(d.v) :
              OrderKept(d.v[i].v,
                        u.v[SetMax({j \in 1..Len(u.v) : OrigKey(u.v[j].k) = d.v[i].k})].v)
    ELSE IF u.t = "list" THEN
        /\ d.t = "list"
        /\ Len(d.v) = Len(u.v)
        /\ \A i \in 1..Len(d.v) : OrderKept(d.v[i], u.v[i])
    ELSE TRUE

\* the keys of the data d, each object's keys in order, a key before the
\* keys of its value
RECURSIVE KeysPre(_)
KeysPre(d) ==
    IF d.t = "dict"
    THEN Concat([i \in 1..Len(d.v) |-> <<d.v[i].k>> \o KeysPre(d.v[i].v)])
    ELSE IF d.t = "list" THEN Concat([i \in 1..Len(d.v) |-> KeysPre(d.v[i])])
    ELSE <<>>

\* token i is the key of a statement written by dumps_to_ker: the first
\* token of its line, with "=" or "{" after it on the line
IsKeyLine(T, i) ==
    /\ IsKeyTok(T, i)
    /\ T[i + 1].line = T[i].line
    /\ i = 1 \/ T[i - 1].line < T[i].line

\* the keys of the statements of the written text's tokens T, in the
\* order of the text
RECURSIVE KeyToks(_, _)
KeyToks(T, i) ==
    IF i > Len(T) THEN <<>>
    ELSE (IF IsKeyLine(T, i) THEN <<T[i].value>> ELSE <<>>) \o KeyToks(T, i + 1)

\* what the reference lexer and parser make of a key as identifier_repr
\* writes it
KeysOf(n) == {e.k : e \in Entries(n)}

\* the text of the key is one IDENT or STRING token of value k, then EOF
RelexesAsKey(k) ==
    LET One(l) ==
            /\ l.ok
            /\ Len(l.toks) = 2
            /\ l.toks[1].type \in {"IDENT", "STRING"}
            /\ l.toks[1].value = k
    IN  One(LexAll(identifier_repr(k), LexStart, <<>>))

\* the statement `<key> = 1` is parsed as the one entry k of the root
AcceptedAsKey(k) ==
    LET One(r) == r.ok /\ KeysOf(r.node) = {k}
    IN  One(ParseText(identifier_repr(k) \o <<SP, "=", SP, "1">>))

\* index p of the text s begins the content of a line: only spaces lie
\* between the line's start and p
RECURSIVE StartsLine(_, _)
StartsLine(s, p) == p = 1 \/ s[p - 1] = NL \/ (s[p - 1] = SP /\ StartsLine(s, p - 1))

\* the key k is written at index p of s as the key of a statement
KeyAt(s, p, k) ==
    LET At(r, q) ==
            /\ q + 1 <= Len(s)
            /\ SubSeq(s, p, q - 1) = r
            /\ s[q] = SP /\ s[q + 1] \in {"=", "{"}
    IN  StartsLine(s, p) /\ At(identifier_repr(k), p + Len(identifier_repr(k)))

\* the keys ks are written in s as statements' keys, from index p on, in
\* this order
RECURSIVE WrittenInOrder(_, _, _)
WrittenInOrder(s, p, ks) ==
    IF ks = <<>> THEN TRUE
    ELSE LET First(P) ==
                 /\ P # {}
                 /\ WrittenInOrder(s, SetMin(P) + Len(identifier_repr(Head(ks))), Tail(ks))
         IN  First({q \in p..Len(s) : KeyAt(s, q, Head(ks))})

\* C20: node_to_json and dumps_to_ker give the children of every object
\* in the order in which the keys were first assigned in the source; a key
\* assigned again keeps the place of its first assignment and takes the
\* new value.
C20_KeyOrder ==
    LET Src(u) == u.ok /\ OrderKept(jback, node_to_json(u.node))
        Toks(U) == U.ok /\ KeyToks(U.toks, 1) = KeysPre(jback)
        \* the written text has the keys in order; where every key reads
        \* again as a key, its key tokens are exactly the keys
        Out(s) ==
            /\ WrittenInOrder(s, 1, KeysPre(jback))
            /\ (\A i \in 1..Len(KeysPre(jback)) : RelexesAsKey(KeysPre(jback)[i]))
                   => Toks(LexAll(s, LexStart, <<>>))
    IN  /\ pc = "tojson" =>
              /\ Src(parse(Unique(toks.toks)))
              /\ Out(out1)
        /\ (pc = "fromjson" /\ jnode.ok) =>
              /\ KeysPre(node_to_json(jnode.node)) = KeysPre(jback)
              /\ Out(dumps_to_ker(jnode.node))

\* C20, its case reached: the data of a text that assigns a, then b, then
\* a again has been taken and the text has been written
C20_Witness ==
    /\ pc = "tojson"
    /\ out1 # <<>>
    /\ LET Aba(u) ==
                /\ u.ok /\ Len(u.node.children[1]) >= 3
                /\ OrigKey(u.node.children[1][1].k) = <<"a">>
                /\ OrigKey(u.node.children[1][2].k) = <<"b">>
                /\ OrigKey(u.node.children[1][3].k) = <<"a">>
       IN  Aba(parse(Unique(toks.toks)))

(***************************************************************************)
(* C21.  A JSON decoder (json.loads, strict) over a text: the value and    *)
(* the index after it.                                                     *)
(***************************************************************************)
JsonWs == {SP, NL, TAB, CR}

RECURSIVE SkipWs(_, _)
SkipWs(s, i) == IF i <= Len(s) /\ s[i] \in JsonWs THEN SkipWs(s, i + 1) ELSE i

JFail == [ok |-> FALSE]
JVal(v, i) == [ok |-> TRUE, v |-> v, i |-> i]

RECURSIVE JString(_, _, _)
\* the string whose opening quote is before index i
JString(s, i, acc) ==
    IF i > Len(s) THEN JFail
    ELSE IF s[i] = QUOTE THEN JVal(PyStr(acc), i + 1)
    ELSE IF s[i] \in {NL, TAB, CR, BSP, FF} THEN JFail
    ELSE IF s[i] # BSL THEN JString(s, i + 1, Append(acc, s[i]))
    ELSE IF i + 1 > Len(s) THEN JFail
    ELSE IF s[i + 1] = "u"
    THEN IF i + 5 <= Len(s) /\ \A k \in (i + 2)..(i + 5) : s[k] \in HexChars
         THEN JString(s, i + 6, Append(acc, Chr(HexValue(SubSeq(s, i + 2, i + 5)))))
         ELSE JFail
    ELSE LET Esc(c) == CASE c = QUOTE -> <<QUOTE>> [] c = BSL -> <<BSL>> [] c = "/" -> <<"/">>
                         [] c = "b" -> <<BSP>> [] c = "f" -> <<FF>> [] c = "n" -> <<NL>>
                         [] c = "r" -> <<CR>> [] c = "t" -> <<TAB>> [] OTHER -> <<>>
             Then(e) == IF e = <<>> THEN JFail ELSE JString(s, i + 2, acc \o e)
         IN  Then(Esc(s[i + 1]))

JNumChars == AsciiDigits \cup {"-", "+", ".", "e", "E"}

RECURSIVE JNumEnd(_, _)
JNumEnd(s, i) == IF i <= Len(s) /\ s[i] \in JNumChars THEN JNumEnd(s, i + 1) ELSE i

JStartsWith(s, i, w) == i + Len(w) - 1 <= Len(s) /\ SubSeq(s, i, i + Len(w) - 1) = w

RECURSIVE JValue(_, _)
RECURSIVE JArray(_, _, _)
RECURSIVE JObject(_, _, _)

JValue(s, i) ==
    IF i > Len(s) THEN JFail
    ELSE IF s[i] = QUOTE THEN JString(s, i + 1, <<>>)
    ELSE IF s[i] = "[" THEN JArray(s, SkipWs(s, i + 1), <<>>)
    ELSE IF s[i] = "{" THEN JObject(s, SkipWs(s, i + 1), <<>>)
    ELSE IF JStartsWith(s, i, <<"t","r","u","e">>) THEN JVal(PyBool(TRUE), i + 4)
    ELSE IF JStartsWith(s, i, <<"f","a","l","s","e">>) THEN JVal(PyBool(FALSE), i + 5)
    ELSE IF JStartsWith(s, i, <<"n","u","l","l">>) THEN JVal(PyNone, i + 4)
    ELSE LET Num(j) ==
                 IF j = i \/ \A k \in i..(j - 1) : s[k] \notin AsciiDigits THEN JFail
                 ELSE JVal(NumberValue(SubSeq(s, i, j - 1)), j)
         IN  Num(JNumEnd(s, i))

\* the items of an array, i at the next item or at the closing bracket
JArray(s, i, acc) ==
    IF i > Len(s) THEN JFail
    ELSE IF s[i] = "]" /\ acc = <<>> THEN JVal(PyList(<<>>), i + 1)
    ELSE LET After(r, k) ==
                 IF k > Len(s) THEN JFail
                 ELSE IF s[k] = "," THEN JArray(s, SkipWs(s, k + 1), Append(acc, r.v))
                 ELSE IF s[k] = "]" THEN JVal(PyList(Append(acc, r.v)), k + 1)
                 ELSE JFail
             Item(r) == IF r.ok THEN After(r, SkipWs(s, r.i)) ELSE JFail
         IN  Item(JValue(s, i))

\* the members of an object, i at the next key or at the closing brace
JObject(s, i, acc) ==
    IF i > Len(s) THEN JFail
    ELSE IF s[i] = "}" /\ acc = <<>> THEN JVal(PyDict(<<>>), i + 1)
    ELSE IF s[i] # QUOTE THEN JFail
    ELSE LET After(key, r, k) ==
                 IF k > Len(s) THEN JFail
                 ELSE IF s[k] = "," THEN JObject(s, SkipWs(s, k + 1), DictSet(acc, key, r.v))
                 ELSE IF s[k] = "}" THEN JVal(PyDict(DictSet(acc, key, r.v)), k + 1)
                 ELSE JFail
             Member(key, r) == IF r.ok THEN After(key, r, SkipWs(s, r.i)) ELSE JFail
             Colon(key, k) ==
                 IF k <= Len(s) /\ s[k] = ":" THEN Member(key.v.v, JValue(s, SkipWs(s, k + 1)))
                 ELSE JFail
             Key(key) == IF key.ok THEN Colon(key, SkipWs(s, key.i)) ELSE JFail
         IN  Key(JString(s, i + 1, <<>>))

\* json.loads(s): the decoded value, or a failure
json_loads(s) ==
    LET Whole(r) == IF r.ok /\ SkipWs(s, r.i) > Len(s) THEN [ok |-> TRUE, v |-> r.v] ELSE JFail
    IN  Whole(JValue(s, SkipWs(s, 1)))

RECURSIVE Squeeze(_, _, _)
\* the text from index i on without the white space outside its strings
Squeeze(s, i, inStr) ==
    IF i > Len(s) THEN <<>>
    ELSE IF inStr /\ s[i] = BSL /\ i < Len(s) THEN <<s[i], s[i + 1]>> \o Squeeze(s, i + 2, TRUE)
    ELSE IF s[i] = QUOTE THEN <<s[i]>> \o Squeeze(s, i + 1, ~inStr)
    ELSE IF ~inStr /\ s[i] \in JsonWs THEN Squeeze(s, i + 1, FALSE)
    ELSE <<s[i]>> \o Squeeze(s, i + 1, inStr)

\* C21: once to_json has run on a parsed root, a JSON decoder reads its text
\* as exactly node_to_json(root), and the text differs from the encoder's
\* only in the white space outside the strings.
C21_ToJsonDecodes ==
    pc = "jsontext" =>
        /\ json_loads(jtext) = [ok |-> TRUE, v |-> node_to_json(root.node)]
        /\ Squeeze(jtext, 1, FALSE) = Squeeze(JsonDumps(node_to_json(root.node), 0, 0), 1, FALSE)

(***************************************************************************)
(* C22.  What a command is to do with its text once it is read: on         *)
(* success write Out to the output ("-": standard output, no file          *)
(* touched) and exit 0; on an error of the text write nothing and exit 1.  *)
(***************************************************************************)
Converts(r) ==
    IF r.ok
    THEN /\ exit' = Some(0)
         /\ IF args.output = "-"
            THEN stdout' = stdout \o r.text /\ files' = files
            ELSE stdout' = stdout /\ files' = [files EXCEPT ![args.output] = Some(r.text)]
    ELSE exit' = Some(1) /\ stdout' = stdout /\ files' = files

\* the JSON text of the data of the .ker text t
JsonOf(t, indent) ==
    LET Loaded(d) == IF d.ok THEN [ok |-> TRUE, text |-> JsonDumps(d.data, indent, 0)] ELSE d
    IN  Loaded(loads(t))

\* C22: in a to-json run, an input argument - makes the text read the
\* standard input's and that text is what is converted, and an output
\* argument - puts the JSON on the standard output and leaves every file as
\* it was.
C22_ToJsonStdio ==
    [][args.cmd = "to-json" =>
          /\ (pc = "cli" /\ args.input = "-") => (text' = stdin /\ pc' = "cliread")
          /\ (pc = "cliread" /\ (args.input = "-" \/ args.output = "-")) =>
                 Converts(JsonOf(text, args.indent))]_vars

\* the same of the fmt command, whose output is dumps(loads(text)) (it holds)
C22_FmtStdio ==
    [][args.cmd = "fmt" =>
          /\ (pc = "cli" /\ args.input = "-") => (text' = stdin /\ pc' = "cliread")
          /\ (pc = "cliread" /\ (args.input = "-" \/ args.output = "-")) =>
                 Converts(FmtText(text))]_vars

(***************************************************************************)
(* C23.  Keys as identifier_repr writes them, read again by the reference  *)
(* lexer and parser (RelexesAsKey, AcceptedAsKey).                         *)
(***************************************************************************)
\* C23: every key of a parsed root, and of the node from_json_string makes
\* of its data, is written by identifier_repr as a text that lexes as one
\* IDENT or STRING token of that value and that parse_statement accepts as
\* the key.
C23_KeysRelex ==
    /\ (pc = "parsed" /\ root.ok) =>
           \A k \in KeysOf(root.node) : RelexesAsKey(k) /\ AcceptedAsKey(k)
    /\ (pc = "fromjson" /\ jnode.ok) =>
           \A k \in KeysOf(jnode.node) : RelexesAsKey(k) /\ AcceptedAsKey(k)

\* the same of the keys that are none of true, false, null, True, False,
\* None, do not end in a newline and hold no backspace or form feed (it
\* holds)
C23_PlainKeys ==
    (pc = "parsed" /\ root.ok) =>
        \A k \in KeysOf(root.node) :
            (/\ lex_ident_or_keyword(k \o <<SP>>, LexStart).tok.type = "IDENT" \/ ~IdentMatch(k)
             /\ k = <<>> \/ k[Len(k)] # NL
             /\ \A i \in 1..Len(k) : k[i] \notin {BSP, FF})
            => RelexesAsKey(k) /\ AcceptedAsKey(k)

(***************************************************************************)
(* C24.  The string values of an AST, and what the reference lexer makes   *)
(* of a string as lit_repr writes it.                                      *)
(***************************************************************************)
StringsOf(n) == {m.value.v : m \in {x \in Nodes(n) : IsLiteralNode(x) /\ x.value.t = "str"}}

\* the literal's text is one STRING token of value cs, then EOF
RelexesAsString(cs) ==
    LET One(l) ==
            /\ l.ok
            /\ Len(l.toks) = 2
            /\ l.toks[1].type = "STRING"
            /\ l.toks[1].value = cs
    IN  One(LexAll(lit_repr(PyStr(cs)), LexStart, <<>>))

\* C24: every string value of a parsed root, and of the node
\* from_json_string makes of its data, is written by lit_repr as a text
\* that the reference lexer reads as one STRING token of exactly that value.
C24_StringsRelex ==
    /\ (pc = "parsed" /\ root.ok) => \A cs \in StringsOf(root.node) : RelexesAsString(cs)
    /\ (pc = "fromjson" /\ jnode.ok) => \A cs \in StringsOf(jnode.node) : RelexesAsString(cs)

\* the same of the strings that hold no backspace and no form feed (it holds)
C24_NoBackspace ==
    (pc = "parsed" /\ root.ok) =>
        \A cs \in StringsOf(root.node) :
            (\A i \in 1..Len(cs) : cs[i] \notin {BSP, FF}) => RelexesAsString(cs)

(***************************************************************************)
(* C25.  The arrays of an AST that dumps_to_ker writes as a multi-line     *)
(* block.                                                                  *)
(***************************************************************************)
MultiLine(n) == {m \in Nodes(n) : m.elements # None /\ ~Inlined(m.elements[1])}

\* C25: when the dumped root holds an array written as a multi-line block,
\* the reference parser accepts the output and the data it yields is the
\* root's: every array has its elements, of the same shapes and values,
\* in the same order.
C25_MultiLineReparse ==
    (pc = "reparsed" /\ MultiLine(root.node) # {}) =>
        root2.ok /\ node_to_json(root2.node) = node_to_json(root.node)

\* the same when no multi-line array has more than one element (it holds)
C25_OneElement ==
    (/\ pc = "reparsed" /\ MultiLine(root.node) # {}
     /\ \A m \in MultiLine(root.node) : Len(m.elements[1]) <= 1) =>
        root2.ok /\ node_to_json(root2.node) = node_to_json(root.node)

(***************************************************************************)
(* C26.  Plain data: None, str, bool, int, float, and the lists and dicts  *)
(* of plain data.                                                          *)
(***************************************************************************)
RECURSIVE PlainData(_)
PlainData(v) ==
    /\ DOMAIN v = {"t", "v"}
    /\ \/ v.t \in {"None", "str", "bool", "int", "float"}
       \/ v.t = "list" /\ \A i \in 1..Len(v.v) : PlainData(v.v[i])
       \/ v.t = "dict" /\ \A i \in 1..Len(v.v) : PlainData(v.v[i].v)

\* C26: once ker.loads has run on a text it has either returned plain data
\* or raised KerError: no exception of another type (the ValueError of a
\* number token such as 1.1. included) leaves it, and with an error no data
\* is returned.
C26_LoadsWraps ==
    pc = "kloaded" =>
        \/ kdata.ok /\ PlainData(kdata.data)
        \/ ~kdata.ok /\ kdata.etype = "KerError" /\ "data" \notin DOMAIN kdata

\* a number token float() rejects was met: loads raised KerError from the
\* ValueError
C26_Witness ==
    /\ pc = "kloaded"
    /\ ~kdata.ok /\ kdata.etype = "KerError" /\ kdata.cause = "ValueError"

====
